---- MODULE Spec2Model ----
(***************************************************************************)
(* Days of MadaraUchiha/aoc-2025 (src/src/days), each with a specification *)
(* of its own; the variables of the other days stay idle in it.            *)
(*                                                                         *)
(* Day 10 (src/src/days/day10/mod.rs, specification Spec): the text        *)
(* of a puzzle input is split into lines, each line is parsed into a       *)
(* Machine, part1 runs the exhaustive toggle search on every machine and   *)
(* part2 runs the Z3-backed linear minimizer on every machine in parallel. *)
(*                                                                         *)
(* Text is a sequence of one-character strings.  Zero-based indices of the *)
(* source are the one-based positions of the sequences minus one.  The     *)
(* alphabet of the inputs holds no carriage return and no whitespace other *)
(* than the space and the line feed.                                       *)
(*                                                                         *)
(* A u16 shift whose amount is 16 or more panics in a build with overflow  *)
(* checks (cargo's dev and test profiles) and masks the amount to four     *)
(* bits otherwise (the release profile); the variable build says which.    *)
(* The same holds of every other integer operation that overflows: a panic *)
(* with overflow checks, the wrapped value without.                        *)
(*                                                                         *)
(* Day 1 (day01/mod.rs, specification SpecDay01): a Safe made by Safe::new *)
(* runs count_zeros or count_zeros_every_click, one instruction a step.    *)
(***************************************************************************)
EXTENDS Integers, Sequences, FiniteSets, TLC

VARIABLES build, entry, input, pc, machines, presses1, answer1, task, result, answer2,
          start, position, instructions, ip, count, method, pc01,
          line, bank, length, remaining_batteries, joltage, highest_joltage, pc03,
          grid, size, current_size, removed, pc04,
          fresh_ranges, ranges_merged, range_index, fresh_total, pc05,
          junction_room, from_index, to_index, pc08,
          pairs, pair_index, last_from, last_to, answer08,
          tile_floor, rectangle_list, rectangle_index, found, answer09, pc09,
          machine_text, machine, toggle_calls, joltage_calls, joltage_models

\* The variables of each day.
vars10 == <<entry, input, pc, machines, presses1, answer1, task, result, answer2>>

vars01 == <<start, position, instructions, ip, count, method, pc01>>

vars03 == <<line, bank, length, remaining_batteries, joltage, highest_joltage, pc03>>

vars04 == <<grid, size, current_size, removed, pc04>>

vars05 == <<fresh_ranges, ranges_merged, range_index, fresh_total, pc05>>

vars08 == <<junction_room, from_index, to_index, pc08,
           pairs, pair_index, last_from, last_to, answer08>>

vars09 == <<tile_floor, rectangle_list, rectangle_index, found, answer09, pc09>>

\* The variables of the repeated calls of the solvers of day 10.
varsCalls == <<machine_text, machine, toggle_calls, joltage_calls, joltage_models>>

vars == <<build, vars10, vars01, vars03, vars04, vars05, vars08, vars09, varsCalls>>

\* The variables of the other days, which a day leaves alone.
others10 == <<vars01, vars03, vars04, vars05, vars08, vars09, varsCalls>>

others01 == <<vars10, vars03, vars04, vars05, vars08, vars09, varsCalls>>

others03 == <<vars10, vars01, vars04, vars05, vars08, vars09, varsCalls>>

others04 == <<vars10, vars01, vars03, vars05, vars08, vars09, varsCalls>>

others05 == <<vars10, vars01, vars03, vars04, vars08, vars09, varsCalls>>

others08 == <<vars10, vars01, vars03, vars04, vars05, vars09, varsCalls>>

others09 == <<vars10, vars01, vars03, vars04, vars05, vars08, varsCalls>>

othersCalls == <<vars10, vars01, vars03, vars04, vars05, vars08, vars09>>

\* A day that is not run.
Idle10 ==
    /\ entry = "idle"
    /\ input = <<>>
    /\ pc = "idle"
    /\ machines = [tag |-> "Unset", val |-> 0]
    /\ presses1 = <<>>
    /\ answer1 = [tag |-> "Unset", val |-> 0]
    /\ task = <<>>
    /\ result = <<>>
    /\ answer2 = [tag |-> "Unset", val |-> 0]

Idle01 ==
    /\ start = 0
    /\ position = 0
    /\ instructions = <<>>
    /\ ip = 0
    /\ count = 0
    /\ method = "idle"
    /\ pc01 = "idle"

Idle03 ==
    /\ line = <<>>
    /\ bank = <<>>
    /\ length = 0
    /\ remaining_batteries = 0
    /\ joltage = <<>>
    /\ highest_joltage = [tag |-> "Unset", val |-> 0]
    /\ pc03 = "idle"

Idle04 ==
    /\ grid = {}
    /\ size = 0
    /\ current_size = 0
    /\ removed = 0
    /\ pc04 = "idle"

Idle05 ==
    /\ fresh_ranges = <<>>
    /\ ranges_merged = <<>>
    /\ range_index = 0
    /\ fresh_total = [tag |-> "Unset", val |-> 0]
    /\ pc05 = "idle"

Idle08 ==
    /\ junction_room = <<>>
    /\ from_index = 0
    /\ to_index = 0
    /\ pc08 = "idle"
    /\ pairs = [tag |-> "Unset", val |-> 0]
    /\ pair_index = 0
    /\ last_from = <<0, 0, 0>>
    /\ last_to = <<0, 0, 0>>
    /\ answer08 = [tag |-> "Unset", val |-> 0]

IdleCalls ==
    /\ machine_text = <<>>
    /\ machine = [tag |-> "Unset", val |-> 0]
    /\ toggle_calls = <<>>
    /\ joltage_calls = <<>>
    /\ joltage_models = <<>>

Idle09 ==
    /\ tile_floor = <<>>
    /\ rectangle_list = <<>>
    /\ rectangle_index = 0
    /\ found = [tag |-> "Unset", val |-> 0]
    /\ answer09 = [tag |-> "Unset", val |-> 0]
    /\ pc09 = "idle"

(***************************************************************************)
(* Bounds of the inputs.                                                   *)
(***************************************************************************)
MaxButtons == 3
MaxJoltage == 3
MaxLines == 2

(***************************************************************************)
(* u16 arithmetic.                                                         *)
(***************************************************************************)
Width == 16

RECURSIVE Pow2(_)
Pow2(n) == IF n = 0 THEN 1 ELSE 2 * Pow2(n - 1)

MaxU16 == Pow2(Width) - 1

\* The value a panicking integer operation stands for.
PanicVal == 0 - 1

\* 1 << amount on u16.
shl1(b, amount) ==
    IF amount < Width THEN Pow2(amount)
    ELSE IF b = "debug" THEN PanicVal
    ELSE Pow2(amount % Width)

RECURSIVE BitXor(_, _)
BitXor(a, b) ==
    IF a = 0 THEN b
    ELSE IF b = 0 THEN a
    ELSE (((a % 2) + (b % 2)) % 2) + 2 * BitXor(a \div 2, b \div 2)

RECURSIVE BitOr(_, _)
BitOr(a, b) ==
    IF a = 0 THEN b
    ELSE IF b = 0 THEN a
    ELSE (IF (a % 2) + (b % 2) > 0 THEN 1 ELSE 0) + 2 * BitOr(a \div 2, b \div 2)

RECURSIVE BitAnd(_, _)
BitAnd(a, b) ==
    IF a = 0 \/ b = 0 THEN 0
    ELSE (IF (a % 2) + (b % 2) = 2 THEN 1 ELSE 0) + 2 * BitAnd(a \div 2, b \div 2)

RECURSIVE count_ones(_)
count_ones(x) == IF x = 0 THEN 0 ELSE (x % 2) + count_ones(x \div 2)

(***************************************************************************)
(* Option and Result values.  Panic is the third outcome of a call.        *)
(***************************************************************************)
Some(v) == [tag |-> "Some", val |-> v]
NoneV == [tag |-> "None", val |-> 0]
PanicV == [tag |-> "Panic", val |-> 0]
Ok(v) == [tag |-> "Ok", val |-> v]
ErrV == [tag |-> "Err", val |-> 0]
Unset == [tag |-> "Unset", val |-> 0]

(***************************************************************************)
(* str methods of the standard library used by the parser.                 *)
(***************************************************************************)
\* The positions of the separators of s in increasing order, between the
\* position before s and the position after it.
cuts(s, seps) ==
    LET at == {i \in 1..Len(s) : s[i] \in seps}
    IN  <<0>> \o [k \in 1..Cardinality(at) |->
                     CHOOSE i \in at : Cardinality({j \in at : j < i}) = k - 1]
        \o <<Len(s) + 1>>

\* The pieces of s between the cuts.
pieces_between(s, cs) == [k \in 1..(Len(cs) - 1) |-> SubSeq(s, cs[k] + 1, cs[k + 1] - 1)]

split_from(s, seps) == pieces_between(s, cuts(s, seps))

\* str::split(',') keeps the empty pieces.
split(s, sep) == split_from(s, {sep})

\* str::split_whitespace drops them.
split_whitespace(s) == SelectSeq(split_from(s, {" ", "\n"}), LAMBDA w : w # <<>>)

\* str::lines: the pieces between line feeds, without a last empty piece.
drop_last_empty(pieces) ==
    IF pieces[Len(pieces)] = <<>> THEN SubSeq(pieces, 1, Len(pieces) - 1) ELSE pieces

lines(s) == drop_last_empty(split(s, "\n"))

\* s.strip_prefix(open)?.strip_suffix(close)?
strip(s, open, close) ==
    IF Len(s) >= 2 /\ s[1] = open /\ s[Len(s)] = close
    THEN Some(SubSeq(s, 2, Len(s) - 1))
    ELSE NoneV

Digits == <<"0", "1", "2", "3", "4", "5", "6", "7", "8", "9">>

DigitVal(c) == (CHOOSE d \in 1..10 : Digits[d] = c) - 1

IsDigit(c) == \E d \in 1..10 : Digits[d] = c

\* The checked accumulation of u16::from_str: PanicVal here stands for its Err.
RECURSIVE parse_digits(_, _, _)
parse_digits(s, i, acc) ==
    IF i > Len(s) THEN acc
    ELSE IF ~IsDigit(s[i]) THEN PanicVal
    ELSE IF acc * 10 + DigitVal(s[i]) > MaxU16 THEN PanicVal
    ELSE parse_digits(s, i + 1, acc * 10 + DigitVal(s[i]))

\* str::parse::<u16>: an optional plus sign, then at least one digit, at most 65535.
parse_u16(s) ==
    LET digits == IF Len(s) > 0 /\ s[1] = "+" THEN Tail(s) ELSE s
        v == parse_digits(digits, 1, 0)
    IN  IF digits = <<>> \/ v = PanicVal THEN NoneV ELSE Some(v)

(***************************************************************************)
(* The parser of one machine line.                                         *)
(***************************************************************************)
\* The outcome of a fold of shifts: its value, or the panic of a shift.
Folded(v) == IF v = PanicVal THEN PanicV ELSE Some(v)

\* The pieces between commas, each parsed as a u16: None when one is none.
parse_all(pieces) ==
    IF \E i \in DOMAIN pieces : parse_u16(pieces[i]).tag = "None" THEN NoneV
    ELSE Some([i \in DOMAIN pieces |-> parse_u16(pieces[i]).val])

\* The fold of parse_light_bit_pattern: acc | (1 << i) for each '#'.
RECURSIVE light_fold(_, _, _, _)
light_fold(b, s, i, acc) ==
    IF i > Len(s) THEN acc
    ELSE IF s[i] # "#" THEN light_fold(b, s, i + 1, acc)
    ELSE IF i - 1 >= Width /\ b = "debug" THEN PanicVal
    ELSE light_fold(b, s, i + 1, BitOr(acc, shl1(b, i - 1)))

light_of(b, q) == IF q.tag = "None" THEN NoneV ELSE Folded(light_fold(b, q.val, 1, 0))

parse_light_bit_pattern(b, s) == light_of(b, strip(s, "[", "]"))

\* The fold of parse_button: acc | (1 << part).
RECURSIVE button_fold(_, _, _, _)
button_fold(b, parts, i, acc) ==
    IF i > Len(parts) THEN acc
    ELSE IF parts[i] >= Width /\ b = "debug" THEN PanicVal
    ELSE button_fold(b, parts, i + 1, BitOr(acc, shl1(b, parts[i])))

button_of_parts(b, parts) ==
    IF parts.tag = "None" THEN NoneV ELSE Folded(button_fold(b, parts.val, 1, 0))

button_of(b, q) == IF q.tag = "None" THEN NoneV ELSE button_of_parts(b, parse_all(split(q.val, ",")))

parse_button(b, s) == button_of(b, strip(s, "(", ")"))

joltage_of(q) == IF q.tag = "None" THEN NoneV ELSE parse_all(split(q.val, ","))

parse_joltage_requirements(s) == joltage_of(strip(s, "{", "}"))

Machine(l, bs, js) == [light_bit_pattern |-> l, buttons |-> bs, joltage_requirements |-> js]

\* The collect of the buttons, parts[1..parts.len() - 1]: it stops at the
\* first part that is no button.
RECURSIVE buttons_collect(_, _, _, _)
buttons_next(b, parts, i, acc, r) ==
    IF r.tag = "Panic" THEN PanicV
    ELSE IF r.tag = "None" THEN ErrV
    ELSE buttons_collect(b, parts, i + 1, Append(acc, r.val))

buttons_collect(b, parts, i, acc) ==
    IF i > Len(parts) - 1 THEN Ok(acc)
    ELSE buttons_next(b, parts, i, acc, parse_button(b, parts[i]))

from_str_joltage(light, buttons, requirements) ==
    IF requirements.tag = "None" THEN ErrV ELSE Ok(Machine(light, buttons, requirements.val))

from_str_buttons(parts, light, buttons) ==
    IF buttons.tag # "Ok" THEN buttons
    ELSE from_str_joltage(light, buttons.val, parse_joltage_requirements(parts[Len(parts)]))

\* parts[1..0] of a single part panics.
from_str_light(b, parts, light) ==
    IF light.tag = "Panic" THEN PanicV
    ELSE IF light.tag = "None" THEN ErrV
    ELSE IF Len(parts) = 1 THEN PanicV
    ELSE from_str_buttons(parts, light.val, buttons_collect(b, parts, 2, <<>>))

\* parts[0] of no part panics.
from_str_parts(b, parts) ==
    IF Len(parts) = 0 THEN PanicV
    ELSE from_str_light(b, parts, parse_light_bit_pattern(b, parts[1]))

\* Machine::from_str.
from_str(b, s) == from_str_parts(b, split_whitespace(s))

\* input.lines().map(from_str).collect::<Result<Vec<Machine>>>(): the first
\* line that is no machine ends it.
RECURSIVE machines_collect(_, _, _, _)
machines_next(b, ls, i, acc, r) ==
    IF r.tag # "Ok" THEN r ELSE machines_collect(b, ls, i + 1, Append(acc, r.val))

machines_collect(b, ls, i, acc) ==
    IF i > Len(ls) THEN Ok(acc) ELSE machines_next(b, ls, i, acc, from_str(b, ls[i]))

parse_input(b, text) == machines_collect(b, lines(text), 1, <<>>)

(***************************************************************************)
(* Part 1: the exhaustive toggle search.                                   *)
(***************************************************************************)
\* The fold of press_button from button i on: acc ^ button where
\* button_pattern & (1 << button_index) > 0.
RECURSIVE press_fold(_, _, _, _, _)
press_fold(b, buttons, button_pattern, i, acc) ==
    IF i > Len(buttons) THEN acc
    ELSE IF i - 1 >= Width /\ b = "debug" THEN PanicVal
    ELSE IF BitAnd(button_pattern, shl1(b, i - 1)) > 0
         THEN press_fold(b, buttons, button_pattern, i + 1, BitXor(acc, buttons[i]))
         ELSE press_fold(b, buttons, button_pattern, i + 1, acc)

\* press_button with the lights of the pressed buttons joined, not toggled.
RECURSIVE press_fold_or(_, _, _, _, _)
press_fold_or(b, buttons, button_pattern, i, acc) ==
    IF i > Len(buttons) THEN acc
    ELSE IF i - 1 >= Width /\ b = "debug" THEN PanicVal
    ELSE IF BitAnd(button_pattern, shl1(b, i - 1)) > 0
         THEN press_fold_or(b, buttons, button_pattern, i + 1, BitOr(acc, buttons[i]))
         ELSE press_fold_or(b, buttons, button_pattern, i + 1, acc)

press_button_or(b, m, button_pattern) == press_fold_or(b, m.buttons, button_pattern, 1, 0)

press_button(b, m, button_pattern) == press_fold(b, m.buttons, button_pattern, 1, 0)

\* 1u16 << self.buttons.len()
max_combinations(b, m) == shl1(b, Len(m.buttons))

Min(S) == CHOOSE x \in S : \A y \in S : x <= y

\* min_by_key(count_ones)?.count_ones()
min_by_key(hits) == IF hits = {} THEN NoneV ELSE Some(Min({count_ones(p) : p \in hits}))

\* The filter of the button patterns, given each pattern with its lights.
filter_patterns(m, pressed) ==
    IF \E pr \in pressed : pr[2] = PanicVal THEN PanicV
    ELSE min_by_key({pr[1] : pr \in {x \in pressed : x[2] = m.light_bit_pattern}})

search_patterns(b, m, mc) ==
    IF mc = PanicVal THEN PanicV
    ELSE filter_patterns(m, {<<p, press_button(b, m, p)>> : p \in 0..(mc - 1)})

find_minimal_button_presses(b, m) == search_patterns(b, m, max_combinations(b, m))

(***************************************************************************)
(* Part 2: the linear minimizer.                                           *)
(***************************************************************************)
\* z3::Optimize with the assertions var >= 0 for each of the n variables and
\* sum(cons[c].terms) = cons[c].target for each c, minimizing the sum of the
\* variables: the minimum, or PanicVal here for an unsatisfiable check.
\* Variable j takes each value its constraints leave room for.
RECURSIVE z3_minimize(_, _, _)
z3_branch(j, n, cons, inc, k) ==
    z3_minimize(j + 1, n,
                [c \in DOMAIN cons |->
                    IF c \in inc THEN [cons[c] EXCEPT !.target = @ - k] ELSE cons[c]])

z3_total(k, r) == IF r = PanicVal THEN PanicVal ELSE k + r

z3_best(totals) == IF totals = {} THEN PanicVal ELSE Min(totals)

z3_choose(j, n, cons, inc) ==
    z3_best({z3_total(k, z3_branch(j, n, cons, inc, k)) :
                k \in 0..(IF inc = {} THEN 0 ELSE Min({cons[c].target : c \in inc}))}
            \ {PanicVal})

z3_minimize(j, n, cons) ==
    IF j > n
    THEN IF \A c \in DOMAIN cons : cons[c].target = 0 THEN 0 ELSE PanicVal
    ELSE z3_choose(j, n, cons, {c \in DOMAIN cons : j \in cons[c].terms})

\* The buttons pushed to sum_terms for counter_idx: button_pattern & (1 << counter_idx) != 0.
sum_terms(b, m, counter_idx) ==
    {i \in DOMAIN m.buttons : BitAnd(m.buttons[i], shl1(b, counter_idx)) # 0}

\* The loop over the counters from position c on, with the constraints asserted so far.
RECURSIVE counter_loop(_, _, _, _)
counter_next(b, m, c, cons, terms, target) ==
    IF terms = {}
    THEN IF target # 0 THEN NoneV ELSE counter_loop(b, m, c + 1, cons)
    ELSE counter_loop(b, m, c + 1, Append(cons, [terms |-> terms, target |-> target]))

counter_loop(b, m, c, cons) ==
    IF c > Len(m.joltage_requirements) THEN Ok(cons)
    ELSE IF Len(m.buttons) > 0 /\ c - 1 >= Width /\ b = "debug" THEN PanicV
    ELSE counter_next(b, m, c, cons, sum_terms(b, m, c - 1), m.joltage_requirements[c])

\* opt.check: Sat with the minimal total, or not Sat.
check_model(total) == IF total = PanicVal THEN NoneV ELSE Some(total)

\* The reduce(..).unwrap() of no button panics.
minimize_total(m, built) ==
    IF built.tag # "Ok" THEN built
    ELSE IF Len(m.buttons) = 0 THEN PanicV
    ELSE check_model(z3_minimize(1, Len(m.buttons), built.val))

find_minimal_button_presses_for_joltage_requirement(b, m) ==
    minimize_total(m, counter_loop(b, m, 1, <<>>))

(***************************************************************************)
(* The two parts of the day.                                               *)
(***************************************************************************)
\* machines.iter().map(find_minimal_button_presses).collect::<Option<Vec<usize>>>():
\* the outcomes of the calls made, the first None (or panic) being the last.
RECURSIVE presses_collect(_, _, _, _)
presses_next(b, ms, i, acc, r) ==
    IF r.tag # "Some" THEN Append(acc, r) ELSE presses_collect(b, ms, i + 1, Append(acc, r))

presses_collect(b, ms, i, acc) ==
    IF i > Len(ms) THEN acc
    ELSE presses_next(b, ms, i, acc, find_minimal_button_presses(b, ms[i]))

RECURSIVE SumVals(_, _)
SumVals(rs, i) == IF i > Len(rs) THEN 0 ELSE rs[i].val + SumVals(rs, i + 1)

\* ok_or_else(..)? and the sum of the collected values.
part1_answer(presses) ==
    IF \E i \in DOMAIN presses : presses[i].tag = "Panic" THEN PanicV
    ELSE IF \E i \in DOMAIN presses : presses[i].tag = "None" THEN ErrV
    ELSE Ok(SumVals(presses, 1))

\* rayon's collect of the parallel map into Option<Vec<u64>>, then ok_or_else(..)?
\* and the sum: a panic of a task that ran is resumed in the caller, a None of
\* a task that ran makes the collection None, the values are summed otherwise.
part2_answer(tk, rs) ==
    IF \E i \in DOMAIN tk : tk[i] = "done" /\ rs[i].tag = "Panic" THEN PanicV
    ELSE IF \E i \in DOMAIN tk : tk[i] = "done" /\ rs[i].tag = "None" THEN ErrV
    ELSE Ok(SumVals(rs, 1))

(***************************************************************************)
(* The inputs: machine lines in the format of the comment above            *)
(* impl FromStr for Machine, and lines that are not of that format.        *)
(***************************************************************************)
RECURSIVE Dec(_)
Dec(n) == IF n < 10 THEN <<Digits[n + 1]>> ELSE Dec(n \div 10) \o <<Digits[(n % 10) + 1]>>

RECURSIVE JoinWith(_, _)
JoinWith(ws, sep) ==
    IF Len(ws) = 0 THEN <<>>
    ELSE IF Len(ws) = 1 THEN ws[1]
    ELSE ws[1] \o <<sep>> \o JoinWith(Tail(ws), sep)

NumList(ns) == JoinWith([i \in DOMAIN ns |-> Dec(ns[i])], ",")

\* "[<bits>] (<idx,..>) .. {<int,..>}"
FormatLine(lights, buttons, jolts) ==
    JoinWith(<<(<<"[">> \o lights \o <<"]">>)>>
             \o [i \in DOMAIN buttons |-> <<"(">> \o NumList(buttons[i]) \o <<")">>]
             \o <<(<<"{">> \o NumList(jolts) \o <<"}">>)>>, " ")

Repeat(x, n) == [i \in 1..n |-> x]

SeqsUpTo(S, n) == UNION {[1..k -> S] : k \in 0..n}

LightPalette == {<<".", ".">>, <<".", "#">>, <<"#", ".">>, <<"#", "#">>}

ButtonPalette == {<<0>>, <<1>>, <<0, 1>>}

\* Every machine of two lights and two counters with at most MaxButtons buttons.
SmallLines ==
    {FormatLine(l, bs, js) : l \in LightPalette, bs \in SeqsUpTo(ButtonPalette, MaxButtons),
                             js \in [1..2 -> 0..MaxJoltage]}

\* The machine of the comment above impl FromStr for Machine.
FixtureLine ==
    FormatLine(<<".", "#", "#", ".">>,
               <<(<<3>>), <<1, 3>>, (<<2>>), <<2, 3>>, <<0, 2>>, <<0, 1>>>>, <<3, 5, 4, 7>>)

\* Machines with as many buttons as a u16 has bits, and one more.
WideButtonLines ==
    {FormatLine(l, Repeat(bt, n), js) :
        l \in {<<"#", ".">>, <<".", "#">>}, bt \in ButtonPalette,
        n \in {Width, Width + 1}, js \in {<<1, 0>>, <<1, 1>>}}

\* Machines with one counter more than a u16 has bits.
WideCounterLines ==
    {FormatLine(<<".", "#">>, bs, <<t1>> \o Repeat(0, Width - 1) \o <<t2>>) :
        bs \in {<<>>, <<(<<0>>)>>, <<(<<1>>)>>}, t1 \in 0..MaxJoltage, t2 \in 0..MaxJoltage}

\* Lines that are not of the format.
MalformedLines ==
    { <<>>,
      <<" ", " ">>,
      <<"[", ".", "#", "]">>,
      <<"{", "1", "}">>,
      <<".", "#", "]", " ", "(", "0", ")", " ", "{", "1", "}">>,
      <<"[", ".", "#", " ", "(", "0", ")", " ", "{", "1", "}">>,
      <<"[", ".", "#", "]", " ", "0", ")", " ", "{", "1", "}">>,
      <<"[", ".", "#", "]", " ", "(", "0", ")", " ", "1", ",", "2">>,
      <<"[", ".", "#", "]", " ", "(", "a", ")", " ", "{", "1", "}">>,
      <<"[", ".", "#", "]", " ", "(", "0", ",", ")", " ", "{", "1", "}">>,
      <<"[", ".", "#", "]", " ", "(", ")", " ", "{", "1", "}">>,
      <<"[", ".", "#", "]", " ", "(", "0", ")", " ", "{", "}">>,
      <<"[", ".", "#", "]", " ", "(", "0", ")", " ", "{", "-", "1", "}">>,
      <<"[", ".", "#", "]", " ", "(", "0", ")", " ", "{", "7", "0", "0", "0", "0", "}">> }

\* Lines the format admits whose numbers are at the edge of a u16.
EdgeLines ==
    { <<"[", ".", "#", "]", " ", "(", "+", "1", ")", " ", "{", "0", "1", ",", "0", "}">>,
      <<"[", ".", "#", "]", " ", "(", "1", "6", ")", " ", "{", "1", ",", "0", "}">>,
      <<"[", ".", "#", "]", " ", "(", "1", "7", ")", " ", "{", "0", ",", "1", "}">>,
      <<"[", ".", "#", "]", " ", "(", "1", ")", " ", "{", "0", ",", "6", "5", "5", "3", "5", "}">>,
      <<"[", "#", "]", " ", "(", "0", ")", " ", "{", "1", "}">>,
      <<"[", ".", "]", " ", "{", "0", "}">>,
      <<"[", "]", " ", "(", "0", ")", " ", "{", "0", "}">>,
      <<"[">> \o Repeat(".", Width) \o <<"#", "]", " ", "(", "0", ")", " ", "{", "1", "}">>,
      <<"[", ".", "#", "]", " ", "(", "5", ")", " ", "{", "1", ",", "0", "}">>,
      <<"[", ".", "#", ".", "]", " ", "(", "2", ")", " ", "{", "1", ",", "0", "}">>,
      <<"[", ".", "#", "]", " ", "(", "1", ")", " ", "{", "0", ",", "6", "5", "5", "3", "6", "}">> }

\* The lines of the inputs of several lines.
AggregateLines ==
    { FormatLine(<<".", "#">>, <<(<<1>>)>>, <<0, 1>>),
      FormatLine(<<"#", "#">>, <<(<<0>>), (<<1>>)>>, <<2, 1>>),
      FormatLine(<<"#", ".">>, <<(<<1>>)>>, <<0, 2>>),
      FormatLine(<<".", ".">>, <<(<<1>>)>>, <<1, 0>>),
      FormatLine(<<".", ".">>, <<>>, <<0, 0>>),
      FormatLine(<<".", "#">>, Repeat(<<1>>, Width), <<0, 1>>),
      <<>>,
      <<"[", ".", "#", "]", " ", "(", "a", ")", " ", "{", "1", "}">> }

OneLineInputs ==
    SmallLines \cup {FixtureLine} \cup WideButtonLines \cup WideCounterLines
    \cup MalformedLines \cup EdgeLines

ManyLineInputs ==
    UNION {{JoinWith(ls, "\n"), JoinWith(ls, "\n") \o <<"\n">>} :
              ls \in UNION {[1..k -> AggregateLines] : k \in 2..MaxLines}}

Inputs == OneLineInputs \cup ManyLineInputs

(***************************************************************************)
(* The state machine: Solution::solve calls part1 and, when it succeeded,  *)
(* part2; Solution::run_test2 calls part2 alone.                           *)
(***************************************************************************)
Init ==
    /\ build \in {"debug", "release"}
    /\ entry \in {"solve", "run_test2"}
    /\ input \in Inputs
    /\ pc = IF entry = "solve" THEN "part1" ELSE "part2"
    /\ machines = Unset
    /\ presses1 = <<>>
    /\ answer1 = Unset
    /\ task = <<>>
    /\ result = <<>>
    /\ answer2 = Unset
    /\ Idle01 /\ Idle03 /\ Idle04 /\ Idle05 /\ Idle08 /\ Idle09 /\ IdleCalls

\* Day10::part1.
Part1 ==
    /\ pc = "part1"
    /\ machines' = parse_input(build, input)
    /\ presses1' = IF machines'.tag = "Ok"
                   THEN presses_collect(build, machines'.val, 1, <<>>)
                   ELSE <<>>
    /\ answer1' = IF machines'.tag = "Ok" THEN part1_answer(presses1') ELSE machines'
    /\ pc' = IF answer1'.tag = "Ok" /\ entry = "solve" THEN "part2" ELSE "done"
    /\ UNCHANGED <<build, entry, input, task, result, answer2, others10>>

\* Day10::part2 up to into_par_iter(): one task for each machine.
Part2Start ==
    /\ pc = "part2"
    /\ machines' = parse_input(build, input)
    /\ IF machines'.tag = "Ok"
       THEN /\ task' = [i \in DOMAIN machines'.val |-> "pending"]
            /\ result' = [i \in DOMAIN machines'.val |-> NoneV]
            /\ answer2' = answer2
            /\ pc' = "part2_tasks"
       ELSE /\ task' = <<>>
            /\ result' = <<>>
            /\ answer2' = machines'
            /\ pc' = "done"
    /\ UNCHANGED <<build, entry, input, presses1, answer1, others10>>

\* A worker runs the closure of the parallel map on machine i.
Part2Task(i) ==
    /\ pc = "part2_tasks"
    /\ task[i] = "pending"
    /\ task' = [task EXCEPT ![i] = "done"]
    /\ result' = [result EXCEPT
                     ![i] = find_minimal_button_presses_for_joltage_requirement(build, machines.val[i])]
    /\ UNCHANGED <<build, entry, input, pc, machines, presses1, answer1, answer2, others10>>

\* Once a task has returned None the collect is full and a machine not yet
\* taken may be left out.
Part2Skip(i) ==
    /\ pc = "part2_tasks"
    /\ task[i] = "pending"
    /\ \E j \in DOMAIN task : task[j] = "done" /\ result[j].tag = "None"
    /\ task' = [task EXCEPT ![i] = "skipped"]
    /\ UNCHANGED <<build, entry, input, pc, machines, presses1, answer1, result, answer2, others10>>

\* The collect returns when every task has ended.
Part2Collect ==
    /\ pc = "part2_tasks"
    /\ \A i \in DOMAIN task : task[i] # "pending"
    /\ answer2' = part2_answer(task, result)
    /\ pc' = "done"
    /\ UNCHANGED <<build, entry, input, machines, presses1, answer1, task, result, others10>>

Next ==
    \/ Part1
    \/ Part2Start
    \/ \E i \in DOMAIN task : Part2Task(i)
    \/ \E i \in DOMAIN task : Part2Skip(i)
    \/ Part2Collect

Spec == Init /\ [][Next]_vars

(***************************************************************************)
(* What the properties speak of, stated on index sets and press counts     *)
(* rather than on bit patterns.                                            *)
(***************************************************************************)
\* The bit indices set in x.
IndexSet(x) == {i \in 0..(Width - 1) : (x \div Pow2(i)) % 2 = 1}

SymDiff(A, B) == (A \ B) \cup (B \ A)

\* <<T, k>> for every set of k distinct buttons among the first i, T being the
\* lights an odd number of them toggles.
RECURSIVE SubsetFolds(_, _)
SubsetFolds(bs, i) ==
    IF i = 0 THEN {<<{}, 0>>}
    ELSE LET prev == SubsetFolds(bs, i - 1)
         IN  prev \cup {<<SymDiff(p[1], IndexSet(bs[i])), p[2] + 1>> : p \in prev}

\* The sizes of the button sets whose fold is the light pattern.
ReachingSizes(m) ==
    {p[2] : p \in {q \in SubsetFolds(m.buttons, Len(m.buttons)) :
                      q[1] = IndexSet(m.light_bit_pattern)}}

Reachable(m) == ReachingSizes(m) # {}

Infeasible == 0 - 1

\* The least sum of press counts of buttons i.. that adds exactly rem[c] to
\* every counter c, or Infeasible.  A button that increments no counter is
\* pressed 0 times in a least sum.
RECURSIVE LeastPresses(_, _, _)
LeastPresses(m, i, rem) ==
    IF i > Len(m.buttons)
    THEN IF \A c \in DOMAIN rem : rem[c] = 0 THEN 0 ELSE Infeasible
    ELSE LET cs == {c \in DOMAIN rem : (c - 1) \in IndexSet(m.buttons[i])}
             sums == {LET r == LeastPresses(m, i + 1,
                                   [c \in DOMAIN rem |-> IF c \in cs THEN rem[c] - k ELSE rem[c]])
                      IN  IF r = Infeasible THEN Infeasible ELSE k + r :
                         k \in 0..(IF cs = {} THEN 0 ELSE Min({rem[c] : c \in cs}))}
         IN  IF sums \ {Infeasible} = {} THEN Infeasible ELSE Min(sums \ {Infeasible})

MinimalPresses(m) == LeastPresses(m, 1, m.joltage_requirements)

Feasible(m) == MinimalPresses(m) # Infeasible

\* The machines part1 has searched and the tasks of part2 that have run.
Searched == DOMAIN presses1

Ran == {i \in DOMAIN task : task[i] = "done"}

MinimalToggle(m) == Min(ReachingSizes(m))

RECURSIVE SumToggle(_, _)
SumToggle(ms, i) == IF i > Len(ms) THEN 0 ELSE MinimalToggle(ms[i]) + SumToggle(ms, i + 1)

RECURSIVE SumPresses(_, _)
SumPresses(ms, i) == IF i > Len(ms) THEN 0 ELSE MinimalPresses(ms[i]) + SumPresses(ms, i + 1)

\* The machine of the comment above impl FromStr for Machine.
IsFixture(m) ==
    /\ IndexSet(m.light_bit_pattern) = {1, 2}
    /\ [i \in DOMAIN m.buttons |-> IndexSet(m.buttons[i])]
         = <<{3}, {1, 3}, {2}, {2, 3}, {0, 2}, {0, 1}>>

\* The least size of a set of buttons, among all the sets of buttons of m,
\* whose toggles fold to the light pattern.
ExhaustiveMin(m) ==
    Min({Cardinality(S) : S \in {T \in SUBSET DOMAIN m.buttons :
            {l \in 0..(Width - 1) :
                Cardinality({i \in T : l \in IndexSet(m.buttons[i])}) % 2 = 1}
            = IndexSet(m.light_bit_pattern)}})

\* A line that is not of the format "[..] (..) .. {..}": blank, fewer than
\* two groups, a group without its brackets, an index that is no number.
Bracketed(g, open, close) == Len(g) >= 2 /\ g[1] = open /\ g[Len(g)] = close

MalformedGroups(gs) ==
    \/ Len(gs) < 2
    \/ ~Bracketed(gs[1], "[", "]")
    \/ ~Bracketed(gs[Len(gs)], "{", "}")
    \/ \E k \in 2..(Len(gs) - 1) :
          \/ ~Bracketed(gs[k], "(", ")")
          \/ \E j \in 2..(Len(gs[k]) - 1) : ~IsDigit(gs[k][j]) /\ gs[k][j] # ","

Malformed(l) == MalformedGroups(split_whitespace(l))

\* The groups of line k of the input.
LineParts(k) == split_whitespace(lines(input)[k])

\* N of the machine of line k: the characters between the brackets of its
\* light group.
LightCount(k) == Len(LineParts(k)[1]) - 2

\* The indices a button group lists between its parentheses.
ListedIndices(g) ==
    LET ns == parse_all(split(SubSeq(g, 2, Len(g) - 1), ",")).val
    IN  {ns[j] : j \in DOMAIN ns}

\* The number whose bit i is set iff character i of cs is '#'.
RECURSIVE LightValue(_, _)
LightValue(cs, i) ==
    IF i > Len(cs) THEN 0
    ELSE (IF cs[i] = "#" THEN Pow2(i - 1) ELSE 0) + LightValue(cs, i + 1)

\* A light group: brackets around characters of {'#', '.'}.
IsLightGroup(g) ==
    Bracketed(g, "[", "]") /\ \A j \in 2..(Len(g) - 1) : g[j] \in {"#", "."}

\* A group one of whose numbers, all digits, is no u16: it is above 65535.
Oversized(g) ==
    \E w \in {split(SubSeq(g, 2, Len(g) - 1), ",")[j] :
                  j \in DOMAIN split(SubSeq(g, 2, Len(g) - 1), ",")} :
        /\ w # <<>>
        /\ \A j \in DOMAIN w : IsDigit(w[j])
        /\ parse_u16(w).tag = "None"

RECURSIVE SumSeq(_, _)
SumSeq(ns, i) == IF i > Len(ns) THEN 0 ELSE ns[i] + SumSeq(ns, i + 1)

(***************************************************************************)
(* The properties.                                                         *)
(***************************************************************************)
\* C1: for every machine whose light pattern some set of buttons reaches,
\* find_minimal_button_presses returns Some(k), k being the size of a set of
\* distinct buttons whose fold is the light pattern, no smaller set having
\* that fold.
C1_MinimalToggleWeight ==
    \A i \in Searched :
        Reachable(machines.val[i]) => presses1[i] = Some(MinimalToggle(machines.val[i]))

\* C2: for every machine whose counter equations have a solution in
\* non-negative integers, the linear minimizer returns Some(m), m being the
\* least sum of such a solution.
C2_MinimalJoltagePresses ==
    \A i \in Ran :
        Feasible(machines.val[i]) => result[i] = Some(MinimalPresses(machines.val[i]))

\* C3 as stated: on the machine ".##." with buttons {3}, {1,3}, {2}, {2,3},
\* {0,2}, {0,1} the toggle search returns 3, the value of the exhaustive
\* search over the 2^6 sets of buttons.
C3_FixtureReturnsThree ==
    \A i \in Searched :
        IsFixture(machines.val[i])
            => presses1[i] = Some(3) /\ ExhaustiveMin(machines.val[i]) = 3

\* C3 amended: on that machine the toggle search returns 2, the value of the
\* exhaustive search over the 2^6 sets of buttons.
C3_FixtureReturnsTwo ==
    \A i \in Searched :
        IsFixture(machines.val[i])
            => presses1[i] = Some(2) /\ ExhaustiveMin(machines.val[i]) = 2

\* C3 witness: part1 has searched the fixture machine.
C3_FixtureSearched == \E i \in Searched : IsFixture(machines.val[i])

\* C4: for every machine of at most 16 buttons, 16 included, the toggle
\* search enumerates the press patterns 0 .. 2^B - 1.
C4_EnumeratesAllSubsets ==
    \A i \in Searched :
        Len(machines.val[i].buttons) <= Width
            => max_combinations(build, machines.val[i]) = Pow2(Len(machines.val[i].buttons))

\* C5: for every machine with a counter of requirement > 0 that no button
\* increments, the linear minimizer returns None.
C5_UnservedCounterInfeasible ==
    \A i \in Ran :
        (\E c \in DOMAIN machines.val[i].joltage_requirements :
            /\ machines.val[i].joltage_requirements[c] > 0
            /\ \A k \in DOMAIN machines.val[i].buttons :
                  (c - 1) \notin IndexSet(machines.val[i].buttons[k]))
        => result[i] = NoneV

\* C6: for every machine whose light pattern no set of buttons reaches,
\* find_minimal_button_presses returns None, and does not panic.
C6_UnreachableIsNone ==
    \A i \in Searched : ~Reachable(machines.val[i]) => presses1[i] = NoneV

\* C7: for every machine whose counter equations have no solution in
\* non-negative integers, the linear minimizer returns None, and does not panic.
C7_InfeasibleIsNone ==
    \A i \in Ran : ~Feasible(machines.val[i]) => result[i] = NoneV

\* C8: part1 returns the sum of the minimal toggle weights of the machines
\* of the input, or an error when a machine is unreachable; part2 returns the
\* sum of the minimal press counts, or an error when a machine is infeasible.
C8_PartsSumOrFail ==
    /\ (answer1.tag # "Unset" /\ machines.tag = "Ok")
        => answer1 = IF \A i \in DOMAIN machines.val : Reachable(machines.val[i])
                     THEN Ok(SumToggle(machines.val, 1))
                     ELSE ErrV
    /\ (answer2.tag # "Unset" /\ machines.tag = "Ok")
        => answer2 = IF \A i \in DOMAIN machines.val : Feasible(machines.val[i])
                     THEN Ok(SumPresses(machines.val, 1))
                     ELSE ErrV

\* C9: whichever tasks of part2 ran, in whichever order, when all have ended
\* the value the collect yields is the sum of the minimal press counts in
\* input order, or the error if and only if a machine is infeasible.
C9_ParallelResultDetermined ==
    (pc = "part2_tasks" /\ \A i \in DOMAIN task : task[i] # "pending")
        => /\ part2_answer(task, result).tag \in {"Ok", "Err"}
           /\ part2_answer(task, result).tag = "Err"
                 <=> \E i \in DOMAIN machines.val : ~Feasible(machines.val[i])
           /\ part2_answer(task, result).tag = "Ok"
                 => part2_answer(task, result).val = SumPresses(machines.val, 1)

\* C10: a malformed line makes from_str return Err, which part1 and part2
\* return as their error; no machine is made of it.
C10_MalformedLineIsError ==
    machines.tag # "Unset"
        => \A k \in DOMAIN lines(input) :
              Malformed(lines(input)[k])
                  => /\ from_str(build, lines(input)[k]).tag = "Err"
                     /\ machines.tag = "Err"
                     /\ answer1.tag # "Unset" => answer1.tag = "Err"
                     /\ answer2.tag # "Unset" => answer2.tag = "Err"

\* C11: every machine that part1 has searched or a task of part2 has run on
\* has every bit index set in a button below N, the number of characters of
\* its light pattern, and below C, the number of its joltage requirements.
C11_ButtonIndicesInRange ==
    \A i \in Searched \cup Ran :
        \A k \in DOMAIN machines.val[i].buttons :
            \A x \in IndexSet(machines.val[i].buttons[k]) :
                /\ x < LightCount(i)
                /\ x < Len(machines.val[i].joltage_requirements)

\* C12: once the input is parsed, the light group of every line, whatever
\* its length N, has been parsed to the number whose bit i is set iff its
\* character i is '#'; and the i-th button group of every machine is button
\* i, the one button that the press pattern with bit i alone presses.
C12_BitsFollowCharactersAndGroups ==
    machines.tag # "Unset"
        => /\ \A k \in DOMAIN lines(input) :
                (Len(LineParts(k)) >= 1 /\ IsLightGroup(LineParts(k)[1]))
                    => parse_light_bit_pattern(build, LineParts(k)[1])
                         = Some(LightValue(SubSeq(LineParts(k)[1], 2, Len(LineParts(k)[1]) - 1), 1))
           /\ machines.tag = "Ok"
                => \A k \in DOMAIN machines.val :
                      \A i \in DOMAIN machines.val[k].buttons :
                          /\ i <= Width
                          /\ machines.val[k].buttons[i]
                                = parse_button(build, LineParts(k)[i + 1]).val
                          /\ press_button(build, machines.val[k], Pow2(i - 1))
                                = machines.val[k].buttons[i]

\* C13: nothing in the pipeline wraps silently: a line with a joltage target
\* above 65535 is an error, every index a button group lists is the index of
\* the bit set for it (none is reduced modulo 16), a minimum of part1 is at
\* most 16 and a minimum of part2 at most the sum of the targets, so that
\* their sums stay far below 2^64.
C13_NoSilentWrap ==
    /\ machines.tag # "Unset"
          => \A k \in DOMAIN lines(input) :
                (/\ Len(LineParts(k)) >= 2
                 /\ Bracketed(LineParts(k)[Len(LineParts(k))], "{", "}")
                 /\ Oversized(LineParts(k)[Len(LineParts(k))]))
                    => machines.tag = "Err"
    /\ machines.tag = "Ok"
          => \A k \in DOMAIN machines.val :
                \A i \in DOMAIN machines.val[k].buttons :
                    IndexSet(machines.val[k].buttons[i]) = ListedIndices(LineParts(k)[i + 1])
    /\ \A i \in Searched : presses1[i].tag = "Some" => presses1[i].val <= Width
    /\ \A i \in Ran :
          result[i].tag = "Some"
              => result[i].val <= SumSeq(machines.val[i].joltage_requirements, 1)

(***************************************************************************)
(* Day 1: the dial of the safe.                                            *)
(***************************************************************************)
MaxInstructions == 2

MaxI16 == 32767

MinI16 == 0 - 32768

\* The width of the dial.
Dial == 100

\* a / b of Rust on integers, b > 0: the quotient rounded towards zero.
trunc_div(a, b) == IF a >= 0 THEN a \div b ELSE 0 - ((0 - a) \div b)

\* a + c on usize.  A usize of 2^64 - k, k small, is written 0 - k: the sum of
\* the integers is then the sum modulo 2^64, and it has overflowed when both
\* are of the upper kind or when one is and the sum is not.
add_usize(b, a, c) ==
    IF ((a < 0 /\ c < 0) \/ ((a < 0) # (c < 0) /\ a + c >= 0)) /\ b = "debug"
    THEN PanicV
    ELSE Some(a + c)

\* Safe::next_position: self.position as i16 + instruction, then rem_euclid(100).
next_position(b, pos, instruction) ==
    IF pos + instruction > MaxI16
    THEN IF b = "debug" THEN PanicV ELSE Some((pos + instruction - 2 * (MaxI16 + 1)) % Dial)
    ELSE Some((pos + instruction) % Dial)

\* i16::abs: the least i16 has no absolute value.
abs_i16(b, instruction) ==
    IF instruction = MinI16 THEN (IF b = "debug" THEN PanicV ELSE Some(MinI16))
    ELSE IF instruction < 0 THEN Some(0 - instruction)
    ELSE Some(instruction)

\* The end of count_zero_crossings: the partial turn after the complete ones.
partial_crossing(pos, instruction, rotations, new_pos) ==
    IF new_pos.tag = "Panic" THEN PanicV
    ELSE IF instruction > 0
    THEN IF new_pos.val <= pos THEN Some(rotations + 1) ELSE Some(rotations)
    ELSE IF (new_pos.val > pos \/ new_pos.val = 0) /\ pos > 0
         THEN Some(rotations + 1)
         ELSE Some(rotations)

\* count = (abs_inst / 100) as usize and remaining = abs_inst % 100.
complete_rotations(b, pos, instruction, abs_inst) ==
    IF abs_inst.tag = "Panic" THEN PanicV
    ELSE IF abs_inst.val - Dial * trunc_div(abs_inst.val, Dial) = 0
    THEN Some(trunc_div(abs_inst.val, Dial))
    ELSE partial_crossing(pos, instruction, trunc_div(abs_inst.val, Dial),
                          next_position(b, pos, instruction))

\* Safe::count_zero_crossings.
count_zero_crossings(b, pos, instruction) ==
    IF instruction = 0 THEN Some(0)
    ELSE complete_rotations(b, pos, instruction, abs_i16(b, instruction))

\* The instructions and the positions a Safe is made with.
InstructionPalette ==
    {0, 1, 0 - 1, 49, 50, 0 - 50, 99, 0 - 99, 100, 0 - 100, 101, 0 - 101, 150, 0 - 150,
     200, 32700, MaxI16, MinI16, MinI16 + 1}

StartPalette == {0, 1, 50, 99}

InitDay01 ==
    /\ build \in {"debug", "release"}
    /\ Idle10 /\ Idle03 /\ Idle04 /\ Idle05 /\ Idle08 /\ Idle09 /\ IdleCalls
    /\ start \in StartPalette
    /\ position = start
    /\ instructions \in SeqsUpTo(InstructionPalette, MaxInstructions)
    /\ ip = 1
    /\ count = 0
    /\ method \in {"count_zeros", "count_zeros_every_click"}
    /\ pc01 = "loop"

\* One turn of the loop of Safe::count_zeros.
CountZerosStep ==
    /\ pc01 = "loop"
    /\ method = "count_zeros"
    /\ ip <= Len(instructions)
    /\ IF next_position(build, position, instructions[ip]).tag = "Panic"
       THEN /\ pc01' = "panic"
            /\ UNCHANGED <<position, ip, count>>
       ELSE /\ position' = next_position(build, position, instructions[ip]).val
            /\ count' = IF position' = 0 THEN count + 1 ELSE count
            /\ ip' = ip + 1
            /\ pc01' = pc01
    /\ UNCHANGED <<build, others01, start, instructions, method>>

\* count += self.count_zero_crossings(*instruction), given the crossings.
count_add(b, c, crossings) ==
    IF crossings.tag = "Panic" THEN PanicV ELSE add_usize(b, c, crossings.val)

\* One turn of the loop of Safe::count_zeros_every_click.
EveryClickStep ==
    /\ pc01 = "loop"
    /\ method = "count_zeros_every_click"
    /\ ip <= Len(instructions)
    /\ IF count_add(build, count, count_zero_crossings(build, position, instructions[ip])).tag = "Panic"
       THEN /\ pc01' = "panic"
            /\ UNCHANGED <<position, ip, count>>
       ELSE /\ count' = count_add(build, count,
                                  count_zero_crossings(build, position, instructions[ip])).val
            /\ IF next_position(build, position, instructions[ip]).tag = "Panic"
               THEN /\ pc01' = "panic"
                    /\ UNCHANGED <<position, ip>>
               ELSE /\ position' = next_position(build, position, instructions[ip]).val
                    /\ ip' = ip + 1
                    /\ pc01' = pc01
    /\ UNCHANGED <<build, others01, start, instructions, method>>

\* The loop is over and count is returned.
ReturnCount ==
    /\ pc01 = "loop"
    /\ ip > Len(instructions)
    /\ pc01' = "done"
    /\ UNCHANGED <<build, others01, start, position, instructions, ip, count, method>>

NextDay01 ==
    \/ CountZerosStep
    \/ EveryClickStep
    \/ ReturnCount

SpecDay01 == InitDay01 /\ [][NextDay01]_vars

\* The clicks, among the |instruction| clicks made one at a time from p in
\* the direction of the instruction, after which the dial points at 0.
ClickZeros(p, instruction) ==
    IF instruction >= 0
    THEN Cardinality({j \in 1..instruction : (p + j) % Dial = 0})
    ELSE Cardinality({j \in 1..(0 - instruction) : (p - j) % Dial = 0})

\* The position after the first n instructions, made from p.
RECURSIVE DialAfter(_, _, _)
DialAfter(p, ins, n) ==
    IF n = 0 THEN p ELSE (DialAfter(p, ins, n - 1) + ins[n]) % Dial

\* The zeros of every click of the first n instructions, made from p.
RECURSIVE ClicksAfter(_, _, _)
ClicksAfter(p, ins, n) ==
    IF n = 0 THEN 0
    ELSE ClicksAfter(p, ins, n - 1) + ClickZeros(DialAfter(p, ins, n - 1), ins[n])

\* C15: what count_zero_crossings has added to the count for an instruction,
\* called at the position the dial was in (one of 0..99), is the number of
\* the single clicks of the instruction after which the dial points at 0; so
\* the count of count_zeros_every_click is the sum of these numbers over the
\* instructions done, each taken at the position the instructions before it
\* lead to, and no call fails.
C15_CrossingsCountClicks ==
    (method = "count_zeros_every_click" /\ pc01 # "idle")
        => /\ pc01 # "panic"
           /\ count = ClicksAfter(start, instructions, ip - 1)

\* C16: the position next_position has returned for an instruction is
\* (position + instruction) mod 100, the remainder being non-negative, so the
\* position of a Safe that runs count_zeros or count_zeros_every_click is in
\* 0..=99 after every instruction: it is the sum of the start and of the
\* instructions done, modulo 100, and no call of next_position fails.
C16_PositionStaysOnDial ==
    pc01 # "idle"
        => /\ position \in 0..(Dial - 1)
           /\ position = DialAfter(start, instructions, ip - 1)
           /\ pc01 = "panic"
                => next_position(build, position, instructions[ip]).tag # "Panic"

(***************************************************************************)
(* Day 3 (day03/mod.rs, specification SpecDay03): a BatteryBank made by    *)
(* BatteryBank::new runs find_highest_joltage(length), one battery a step. *)
(* A usize is written as its decimal digits without leading zeros.         *)
(***************************************************************************)
MaxBank == 4

MaxPick == 3

\* usize::MAX, 2^64 - 1.
UsizeMaxDigits ==
    <<"1", "8", "4", "4", "6", "7", "4", "4", "0", "7",
      "3", "7", "0", "9", "5", "5", "1", "6", "1", "5">>

\* The digits of a number without its leading zeros.
RECURSIVE Canon(_)
Canon(ds) == IF Len(ds) > 1 /\ ds[1] = "0" THEN Canon(Tail(ds)) ELSE ds

\* a <= b for digit sequences of one length.
LexLeq(a, b) ==
    \/ a = b
    \/ \E i \in DOMAIN a :
          /\ \A j \in 1..(i - 1) : a[j] = b[j]
          /\ DigitVal(a[i]) < DigitVal(b[i])

\* a <= b for numbers written without leading zeros.
NumLeq(a, b) == Len(a) < Len(b) \/ (Len(a) = Len(b) /\ LexLeq(a, b))

\* str::parse::<usize>: an optional plus sign, then at least one digit, at
\* most usize::MAX.
parse_usize_digits(ds) ==
    IF ds = <<>> \/ \E i \in DOMAIN ds : ~IsDigit(ds[i]) THEN NoneV
    ELSE IF ~NumLeq(Canon(ds), UsizeMaxDigits) THEN NoneV
    ELSE Some(Canon(ds))

parse_usize(s) == parse_usize_digits(IF Len(s) > 0 /\ s[1] = "+" THEN Tail(s) ELSE s)

\* &self.0[..=self.0.len() - batteries_remaining]
battery_pool(bk, batteries_remaining) == SubSeq(bk, 1, Len(bk) - batteries_remaining + 1)

\* max_by_key(|c| **c): the greatest character of the pool.
highest_battery(pool) ==
    CHOOSE c \in {pool[i] : i \in DOMAIN pool} :
        \A i \in DOMAIN pool : DigitVal(pool[i]) <= DigitVal(c)

\* position(|c| *c == highest_battery): the first place it is at.
highest_battery_index(pool) ==
    Min({i \in DOMAIN pool : pool[i] = highest_battery(pool)})

\* The calls: a bank and the length asked of it.
DigitPalette == {"0", "1", "5", "9"}

SmallCalls == {<<l, k>> : l \in SeqsUpTo(DigitPalette, MaxBank), k \in 1..MaxPick}

FixtureBank ==
    <<"9", "8", "7", "6", "5", "4", "3", "2", "1", "1", "1", "1", "1", "1", "1">>

\* Banks as long as usize::MAX is, and longer.
WideCalls ==
    { <<FixtureBank, 2>>, <<FixtureBank, 12>>,
      <<Repeat("9", 19), 19>>,
      <<Repeat("9", 20), 19>>,
      <<Repeat("9", 20), 20>>,
      <<UsizeMaxDigits, 20>>,
      <<SubSeq(UsizeMaxDigits, 1, 19) \o <<"6">>, 20>>,
      <<(<<"0">>) \o UsizeMaxDigits, 20>>,
      <<(<<"1">>) \o Repeat("0", 20), 20>> }

Calls == SmallCalls \cup WideCalls

InitDay03 ==
    /\ build \in {"debug", "release"}
    /\ Idle10 /\ Idle01 /\ Idle04 /\ Idle05 /\ Idle08 /\ Idle09 /\ IdleCalls
    /\ \E call \in Calls :
          /\ line = call[1]
          /\ length = call[2]
    /\ bank = line
    /\ remaining_batteries = length
    /\ joltage = <<>>
    /\ highest_joltage = Unset
    /\ pc03 = "loop"

\* One turn of the loop of find_highest_joltage: remove_highest_available_bettery.
\* A bank shorter than the batteries that remain panics at the pool.
RemoveHighest ==
    /\ pc03 = "loop"
    /\ remaining_batteries > 0
    /\ IF Len(bank) < remaining_batteries
       THEN /\ pc03' = "panic"
            /\ highest_joltage' = PanicV
            /\ UNCHANGED <<bank, joltage, remaining_batteries>>
       ELSE /\ joltage' = Append(joltage,
                                 highest_battery(battery_pool(bank, remaining_batteries)))
            /\ bank' = SubSeq(bank,
                              highest_battery_index(battery_pool(bank, remaining_batteries)) + 1,
                              Len(bank))
            /\ remaining_batteries' = remaining_batteries - 1
            /\ UNCHANGED <<pc03, highest_joltage>>
    /\ UNCHANGED <<build, others03, line, length>>

\* collect::<String>().parse::<usize>().unwrap()
ParseJoltage ==
    /\ pc03 = "loop"
    /\ remaining_batteries = 0
    /\ highest_joltage' = IF parse_usize(joltage).tag = "None" THEN PanicV
                          ELSE parse_usize(joltage)
    /\ pc03' = IF parse_usize(joltage).tag = "None" THEN "panic" ELSE "done"
    /\ UNCHANGED <<build, others03, line, bank, length, remaining_batteries, joltage>>

NextDay03 ==
    \/ RemoveHighest
    \/ ParseJoltage

SpecDay03 == InitDay03 /\ [][NextDay03]_vars

\* The sequences of k elements of s in the order they have in s.
RECURSIVE Subsequences(_, _)
Subsequences(s, k) ==
    IF k = 0 THEN {<<>>}
    ELSE IF Len(s) < k THEN {}
    ELSE {<<s[1]>> \o t : t \in Subsequences(Tail(s), k - 1)} \cup Subsequences(Tail(s), k)

\* The greatest of them, as a number.
Largest(S) == CHOOSE t \in S : \A u \in S : LexLeq(u, t)

\* C17: find_highest_joltage(k) on a bank of n >= k digits returns the
\* largest number that k digits of the bank make in the order they have in
\* the bank.
C17_HighestJoltageIsLargest ==
    (pc03 \in {"done", "panic"} /\ Len(line) >= length)
        => highest_joltage = Some(Canon(Largest(Subsequences(line, length))))

(***************************************************************************)
(* Day 4 (day04/mod.rs, specifications SpecDay04 and FairSpecDay04): part2 *)
(* parses a PaperGrid and runs remove_all_accessible_rolls, one turn of    *)
(* its loop a step.  A Vec2D is the pair <<x, y>>.                         *)
(***************************************************************************)
MaxRows == 4

\* ADJACENT8 of utils/vec2d.rs.
ADJACENT8 ==
    <<(<<0, 0 - 1>>), <<0, 1>>, <<0 - 1, 0>>, <<1, 0>>,
      <<0 - 1, 0 - 1>>, <<1, 0 - 1>>, <<0 - 1, 1>>, <<1, 1>>>>

\* Vec2D::adjacent_8
adjacent_8(p) == [d \in DOMAIN ADJACENT8 |-> <<p[1] + ADJACENT8[d][1], p[2] + ADJACENT8[d][2]>>]

\* PaperGrid::accessible_by_forklift with three rolls around being enough to
\* keep a roll in place.
accessible_by_three(g, p) ==
    Cardinality({d \in DOMAIN adjacent_8(p) : adjacent_8(p)[d] \in g}) < 3

\* PaperGrid::accessible_by_forklift
accessible_by_forklift(g, p) ==
    Cardinality({d \in DOMAIN adjacent_8(p) : adjacent_8(p)[d] \in g}) < 4

\* PaperGrid::remove_accessible_rolls: the grid it leaves.
remove_accessible_rolls(g) == g \ {p \in g : accessible_by_forklift(g, p)}

\* PaperGrid::from_str: the places of the '@' of the lines.
rolls_of_lines(ls) ==
    {<<x - 1, y - 1>> : <<x, y>> \in
        {q \in (UNION {DOMAIN ls[k] : k \in DOMAIN ls}) \X DOMAIN ls :
            q[1] <= Len(ls[q[2]]) /\ ls[q[2]][q[1]] = "@"}}

paper_grid_from_str(s) == rolls_of_lines(lines(s))

\* The rows of the grids and the texts made of them.
RowPalette ==
    { <<"@", "@", "@", "@">>, <<".", "@", "@", ".">>, <<"@", "@", "@", ".">>,
      <<".", "@", "@", "@">>, <<".", ".", ".", ".">>, <<"@", ".", ".", "@">>,
      <<"@", "@">>, <<>> }

GridTexts ==
    {<<>>} \cup {JoinWith(rows, "\n") : rows \in UNION {[1..h -> RowPalette] : h \in 1..MaxRows}}

\* Day04::part2 up to the loop of remove_all_accessible_rolls.
InitDay04 ==
    /\ build \in {"debug", "release"}
    /\ Idle10 /\ Idle01 /\ Idle03 /\ Idle05 /\ Idle08 /\ Idle09 /\ IdleCalls
    /\ grid \in {paper_grid_from_str(t) : t \in GridTexts}
    /\ size = Cardinality(grid)
    /\ current_size = size
    /\ removed = 0
    /\ pc04 = "loop"

\* One turn of the loop of remove_all_accessible_rolls.
RemoveTurn ==
    /\ pc04 = "loop"
    /\ grid' = remove_accessible_rolls(grid)
    /\ IF Cardinality(grid') = current_size
       THEN pc04' = "stopped" /\ current_size' = current_size
       ELSE pc04' = "loop" /\ current_size' = Cardinality(grid')
    /\ UNCHANGED <<build, others04, size, removed>>

\* Ok((size - grid.size()) as u64)
ReturnRemoved ==
    /\ pc04 = "stopped"
    /\ removed' = size - Cardinality(grid)
    /\ pc04' = "done"
    /\ UNCHANGED <<build, others04, grid, size, current_size>>

NextDay04 ==
    \/ RemoveTurn
    \/ ReturnRemoved

SpecDay04 == InitDay04 /\ [][NextDay04]_vars

\* The loop is run by one thread that nothing stops.
FairSpecDay04 == SpecDay04 /\ WF_vars(NextDay04)

\* The rolls of g in the eight cells around p.
RollsAround(g, p) ==
    {q \in g : q # p /\ q[1] - p[1] \in {0 - 1, 0, 1} /\ q[2] - p[2] \in {0 - 1, 0, 1}}

\* C18: remove_all_accessible_rolls stops on every grid; once it has stopped
\* every roll that remains has at least 4 rolls in the 8 cells around it;
\* and part2 returns the number of rolls of the grid parsed minus the number
\* of rolls that remain.
C18_RemovalStopsAtFixpoint ==
    /\ size = Cardinality(grid)
    /\ [][size' = size /\ grid' \subseteq grid]_vars
    /\ <>(pc04 = "done")
    /\ [](pc04 \in {"stopped", "done"}
            => \A p \in grid : Cardinality(RollsAround(grid, p)) >= 4)
    /\ [](pc04 = "done" => removed = size - Cardinality(grid))

\* C18 witness: part2 has returned, rolls were removed in more than one turn
\* and rolls remain.
C18_SomeRemovedSomeRemain ==
    /\ pc04 = "done"
    /\ grid # {}
    /\ removed > 0

(***************************************************************************)
(* Day 5 (day05/mod.rs, specification SpecDay05): an Inventory runs        *)
(* total_possible_fresh_ingredients: the sort, one range of the merge a    *)
(* step, then the sum.  A u64 of 2^64 - k, k small, is written 0 - k, as a *)
(* usize is; the ids of the inventories are near 0 or near 2^64.           *)
(***************************************************************************)
MaxRanges == 3

\* The greatest of the ids near 0 and the number of the ids near 2^64.
MaxId == 3

TopIds == 2

\* a <= b on u64.
u64_leq(a, b) == IF (a < 0) = (b < 0) THEN a <= b ELSE b < 0

\* a + c on u64.
add_u64(b, a, c) == add_usize(b, a, c)

Range(s, e) == [start |-> s, end |-> e]

\* sort_by_key(|range| *range.start()): a stable sort, here by insertion.
RECURSIVE insert_by_start(_, _)
insert_by_start(sorted, r) ==
    IF sorted = <<>> THEN <<r>>
    ELSE IF u64_leq(sorted[Len(sorted)].start, r.start) THEN Append(sorted, r)
    ELSE Append(insert_by_start(SubSeq(sorted, 1, Len(sorted) - 1), r), sorted[Len(sorted)])

RECURSIVE sort_by_start(_, _, _)
sort_by_start(rs, i, sorted) ==
    IF i > Len(rs) THEN sorted ELSE sort_by_start(rs, i + 1, insert_by_start(sorted, rs[i]))

\* *range.end().max(last_range.end())
max_end(a, b) == IF u64_leq(a, b) THEN b ELSE a

\* The body of the loop over the sorted ranges.
merge_range(merged, r) ==
    IF merged # <<>> /\ u64_leq(r.start, merged[Len(merged)].end)
    THEN [merged EXCEPT ![Len(merged)] =
             Range(merged[Len(merged)].start, max_end(r.end, merged[Len(merged)].end))]
    ELSE Append(merged, r)

\* range.end() - range.start() + 1
range_len(b, r) == add_u64(b, r.end - r.start, 1)

\* map(range_len).sum::<u64>() from range i on.
RECURSIVE sum_lens(_, _, _, _)
sum_next(b, merged, i, acc, len) ==
    IF len.tag = "Panic" THEN PanicV
    ELSE IF add_u64(b, acc, len.val).tag = "Panic" THEN PanicV
    ELSE sum_lens(b, merged, i + 1, add_u64(b, acc, len.val).val)

sum_lens(b, merged, i, acc) ==
    IF i > Len(merged) THEN Some(acc) ELSE sum_next(b, merged, i, acc, range_len(b, merged[i]))

\* The ids and the ranges start..=end of the inventories, start <= end.
IdPalette == (0..MaxId) \cup ((0 - TopIds)..(0 - 1))

RangePalette == {Range(s, e) : <<s, e>> \in {q \in IdPalette \X IdPalette : u64_leq(q[1], q[2])}}

InitDay05 ==
    /\ build \in {"debug", "release"}
    /\ Idle10 /\ Idle01 /\ Idle03 /\ Idle04 /\ Idle08 /\ Idle09 /\ IdleCalls
    /\ fresh_ranges \in SeqsUpTo(RangePalette, MaxRanges)
    /\ ranges_merged = <<>>
    /\ range_index = 1
    /\ fresh_total = Unset
    /\ pc05 = "sort"

\* self.fresh_ranges.sort_by_key(..)
SortRanges ==
    /\ pc05 = "sort"
    /\ fresh_ranges' = sort_by_start(fresh_ranges, 1, <<>>)
    /\ pc05' = "merge"
    /\ UNCHANGED <<build, others05, ranges_merged, range_index, fresh_total>>

\* One turn of the loop over self.fresh_ranges.
MergeTurn ==
    /\ pc05 = "merge"
    /\ range_index <= Len(fresh_ranges)
    /\ ranges_merged' = merge_range(ranges_merged, fresh_ranges[range_index])
    /\ range_index' = range_index + 1
    /\ UNCHANGED <<build, others05, fresh_ranges, fresh_total, pc05>>

\* The sum of the lengths of the merged ranges is returned.
SumMerged ==
    /\ pc05 = "merge"
    /\ range_index > Len(fresh_ranges)
    /\ fresh_total' = sum_lens(build, ranges_merged, 1, 0)
    /\ pc05' = IF fresh_total'.tag = "Panic" THEN "panic" ELSE "done"
    /\ UNCHANGED <<build, others05, fresh_ranges, ranges_merged, range_index>>

NextDay05 ==
    \/ SortRanges
    \/ MergeTurn
    \/ SumMerged

SpecDay05 == InitDay05 /\ [][NextDay05]_vars

\* The ids of the palette that a range of rs holds.
CoveredIds(rs) ==
    {v \in IdPalette : \E i \in DOMAIN rs : u64_leq(rs[i].start, v) /\ u64_leq(v, rs[i].end)}

\* The ids between those near 0 and those near 2^64 are all in a range that
\* goes from the ones to the others, and in no other range.
MiddleCovered(rs) == \E i \in DOMAIN rs : rs[i].start >= 0 /\ rs[i].end < 0

\* The number of integers the ranges hold: it is 2^64 when they hold every
\* u64, and then no u64 is that number.
CoversAll(rs) == CoveredIds(rs) = IdPalette /\ MiddleCovered(rs)

CoveredCount(rs) ==
    IF MiddleCovered(rs)
    THEN 0 - Cardinality(IdPalette \ CoveredIds(rs))
    ELSE Cardinality(CoveredIds(rs))

\* C19: total_possible_fresh_ingredients returns the number of distinct
\* integers in the union of the fresh ranges, whatever their order and
\* however they overlap, nest, repeat or touch.
C19_TotalIsSizeOfUnion ==
    pc05 \in {"done", "panic"}
        => /\ ~CoversAll(fresh_ranges)
           /\ fresh_total = Some(CoveredCount(fresh_ranges))

(***************************************************************************)
(* Day 8 (day08/mod.rs, specification SpecDay08): a JunctionRoom made by   *)
(* JunctionRoom::new has merge_junction_box called on two of its boxes or  *)
(* sort_by_box_size called on it, a call a step.  A Vec3D is the triple    *)
(* <<x, y, z>>; from_index and to_index are the zero-based arguments of    *)
(* the last call of merge_junction_box, and pc08 names the last call.      *)
(***************************************************************************)
MaxVectors == 4

\* JunctionRoom::new: each vector in a box of its own.
junction_room_new(vectors) == [i \in DOMAIN vectors |-> <<vectors[i]>>]

\* Vec::remove(index), index zero-based.
remove(boxes, index) == SubSeq(boxes, 1, index) \o SubSeq(boxes, index + 2, Len(boxes))

\* merge_junction_box with the vectors of box `to` put before those of `from`.
merge_junction_box_to_first(room, from, to) ==
    remove([room EXCEPT ![to + 1] = room[to + 1] \o room[from + 1]], from)

\* JunctionRoom::merge_junction_box
merge_junction_box(room, from, to) ==
    remove([room EXCEPT ![to + 1] = room[from + 1] \o room[to + 1]], from)

\* Vec::reverse
reverse(rs) == [k \in DOMAIN rs |-> rs[Len(rs) + 1 - k]]

\* self.0.sort_by_key(|junction_box| junction_box.len()): a stable sort,
\* here by insertion.
RECURSIVE insert_by_len(_, _)
insert_by_len(sorted, junction_box) ==
    IF sorted = <<>> THEN <<junction_box>>
    ELSE IF Len(sorted[Len(sorted)]) <= Len(junction_box) THEN Append(sorted, junction_box)
    ELSE Append(insert_by_len(SubSeq(sorted, 1, Len(sorted) - 1), junction_box),
                sorted[Len(sorted)])

RECURSIVE sort_by_len(_, _, _)
sort_by_len(boxes, i, sorted) ==
    IF i > Len(boxes) THEN sorted
    ELSE sort_by_len(boxes, i + 1, insert_by_len(sorted, boxes[i]))

\* JunctionRoom::sort_by_box_size: the stable sort by length, then reversed,
\* so boxes of one length end in the reverse of the order they were in.
sort_by_box_size(room) == reverse(sort_by_len(room, 1, <<>>))

\* The vectors of the rooms.
VectorPalette == {<<0, 0, 0>>, <<1, 1, 1>>, <<2, 2, 2>>, <<3, 0, 0>>}

InitDay08 ==
    /\ build \in {"debug", "release"}
    /\ Idle10 /\ Idle01 /\ Idle03 /\ Idle04 /\ Idle05 /\ Idle09 /\ IdleCalls
    /\ junction_room \in {junction_room_new(vs) : vs \in SeqsUpTo(VectorPalette, MaxVectors)}
    /\ from_index = 0
    /\ to_index = 0
    /\ pc08 = "new"
    /\ pairs = Unset
    /\ pair_index = 0
    /\ last_from = <<0, 0, 0>>
    /\ last_to = <<0, 0, 0>>
    /\ answer08 = Unset

\* room.merge_junction_box(from, to) on two boxes of the room.
MergeJunctionBox(from, to) ==
    /\ junction_room' = merge_junction_box(junction_room, from, to)
    /\ from_index' = from
    /\ to_index' = to
    /\ pc08' = "merged"
    /\ UNCHANGED <<build, others08, pairs, pair_index, last_from, last_to, answer08>>

\* room.sort_by_box_size()
SortByBoxSize ==
    /\ junction_room' = sort_by_box_size(junction_room)
    /\ pc08' = "sorted"
    /\ UNCHANGED <<build, others08, from_index, to_index,
                   pairs, pair_index, last_from, last_to, answer08>>

NextDay08 ==
    \/ \E from \in 0..(Len(junction_room) - 1), to \in 0..(Len(junction_room) - 1) :
           MergeJunctionBox(from, to)
    \/ SortByBoxSize

SpecDay08 == InitDay08 /\ [][NextDay08]_vars

\* The boxes of a room at the places that are not in S, in their order.
RECURSIVE BoxesOutside(_, _, _)
BoxesOutside(boxes, S, i) ==
    IF i > Len(boxes) THEN <<>>
    ELSE IF i \in S THEN BoxesOutside(boxes, S, i + 1)
    ELSE <<boxes[i]>> \o BoxesOutside(boxes, S, i + 1)

\* The place of the merged box after the call: box `to` moves down by one
\* when box `from` was before it.
MergedPlace(from, to) == IF from < to THEN to ELSE to + 1

\* C20: a call merge_junction_box(from, to) with from != to leaves one box
\* less, a merged box that holds the vectors of box `from` followed by those
\* of box `to`, and every other box as it was, in the order they were in.
\* The step is a call of merge_junction_box when it ends with pc08 "merged".
C20_MergeKeepsOtherBoxes ==
    [][pc08' = "merged" /\ from_index' # to_index'
         => /\ Len(junction_room') = Len(junction_room) - 1
            /\ junction_room'[MergedPlace(from_index', to_index')]
                 = junction_room[from_index' + 1] \o junction_room[to_index' + 1]
            /\ BoxesOutside(junction_room', {MergedPlace(from_index', to_index')}, 1)
                 = BoxesOutside(junction_room, {from_index' + 1, to_index' + 1}, 1)]_vars

\* C20 witness: a call with from != to has merged a box of several vectors
\* into another, in a room where a third box remains.
C20_MergedBesideOthers ==
    /\ pc08 = "merged"
    /\ from_index # to_index
    /\ Len(junction_room) >= 2
    /\ Len(junction_room[MergedPlace(from_index, to_index)]) >= 3

(***************************************************************************)
(* i64 arithmetic (utils/vec3d.rs, day08/mod.rs).  The coordinates of a    *)
(* Vec3D are integers; what the program computes from them does not fit    *)
(* the integers of the model checker, so a computed i64 is the record      *)
(* [neg, mag] of its sign and of its magnitude, the magnitude a sequence   *)
(* of bytes, lowest first, with no zero byte at the top.  An operation of  *)
(* the program is the exact operation followed by the check of the range   *)
(* of i64: out of the range it panics with overflow checks and keeps the   *)
(* low 64 bits without.                                                    *)
(***************************************************************************)
Byte == 256

RECURSIVE nat_of(_)
nat_of(n) == IF n = 0 THEN <<>> ELSE <<n % Byte>> \o nat_of(n \div Byte)

RECURSIVE nat_trim(_)
nat_trim(a) ==
    IF a = <<>> THEN a
    ELSE IF a[Len(a)] # 0 THEN a
    ELSE nat_trim(SubSeq(a, 1, Len(a) - 1))

byte_at(a, i) == IF i <= Len(a) THEN a[i] ELSE 0

RECURSIVE nat_add_from(_, _, _, _)
nat_add_from(a, b, i, carry) ==
    IF i > Len(a) /\ i > Len(b) THEN (IF carry = 0 THEN <<>> ELSE <<carry>>)
    ELSE <<(byte_at(a, i) + byte_at(b, i) + carry) % Byte>>
         \o nat_add_from(a, b, i + 1, (byte_at(a, i) + byte_at(b, i) + carry) \div Byte)

nat_add(a, b) == nat_add_from(a, b, 1, 0)

\* a - b where b <= a.
RECURSIVE nat_sub_from(_, _, _, _)
nat_sub_from(a, b, i, borrow) ==
    IF i > Len(a) THEN <<>>
    ELSE <<(a[i] - byte_at(b, i) - borrow) % Byte>>
         \o nat_sub_from(a, b, i + 1, IF a[i] - byte_at(b, i) - borrow < 0 THEN 1 ELSE 0)

nat_sub(a, b) == nat_trim(nat_sub_from(a, b, 1, 0))

RECURSIVE top_less(_, _, _)
top_less(a, b, i) ==
    IF i = 0 THEN FALSE
    ELSE IF a[i] # b[i] THEN a[i] < b[i]
    ELSE top_less(a, b, i - 1)

nat_less(a, b) == IF Len(a) # Len(b) THEN Len(a) < Len(b) ELSE top_less(a, b, Len(a))

RECURSIVE nat_mul_byte(_, _, _, _)
nat_mul_byte(a, d, i, carry) ==
    IF i > Len(a) THEN (IF carry = 0 THEN <<>> ELSE <<carry>>)
    ELSE <<(a[i] * d + carry) % Byte>> \o nat_mul_byte(a, d, i + 1, (a[i] * d + carry) \div Byte)

nat_shift(a) == IF a = <<>> THEN a ELSE <<0>> \o a

RECURSIVE nat_mul(_, _)
nat_mul(a, b) ==
    IF a = <<>> \/ b = <<>> THEN <<>>
    ELSE nat_add(nat_trim(nat_mul_byte(b, a[1], 1, 0)), nat_shift(nat_mul(Tail(a), b)))

int_norm(neg, mag) == [neg |-> neg /\ mag # <<>>, mag |-> mag]

\* The integer n of the model checker, n > -2^31.
int_of(n) == IF n < 0 THEN int_norm(TRUE, nat_of(0 - n)) ELSE int_norm(FALSE, nat_of(n))

int_add(a, b) ==
    IF a.neg = b.neg THEN int_norm(a.neg, nat_add(a.mag, b.mag))
    ELSE IF nat_less(a.mag, b.mag) THEN int_norm(b.neg, nat_sub(b.mag, a.mag))
    ELSE int_norm(a.neg, nat_sub(a.mag, b.mag))

int_sub(a, b) == int_add(a, int_norm(~b.neg, b.mag))

int_mul(a, b) == int_norm(a.neg # b.neg, nat_mul(a.mag, b.mag))

int_less(a, b) ==
    IF a.neg # b.neg THEN a.neg
    ELSE IF a.neg THEN nat_less(b.mag, a.mag)
    ELSE nat_less(a.mag, b.mag)

int_leq(a, b) == ~int_less(b, a)

\* 2^63 and 2^64.
Pow63 == <<0, 0, 0, 0, 0, 0, 0, 128>>

Pow64 == <<0, 0, 0, 0, 0, 0, 0, 0, 1>>

\* i64::MIN <= v <= i64::MAX
fits_i64(v) == IF v.neg THEN ~nat_less(Pow63, v.mag) ELSE nat_less(v.mag, Pow63)

\* The low 64 bits of a magnitude.
low64(m) == nat_trim(SubSeq(m, 1, IF Len(m) < 8 THEN Len(m) ELSE 8))

\* `as u64`: the value modulo 2^64.
as_u64(v) ==
    IF v.neg /\ low64(v.mag) # <<>> THEN nat_sub(Pow64, low64(v.mag)) ELSE low64(v.mag)

\* The i64 of the low 64 bits of v.
wrap_i64(v) ==
    IF nat_less(as_u64(v), Pow63) THEN int_norm(FALSE, as_u64(v))
    ELSE int_norm(TRUE, nat_sub(Pow64, as_u64(v)))

\* The result of an i64 operation whose exact value is v.
checked_i64(b, v) ==
    IF fits_i64(v) THEN Ok(v)
    ELSE IF b = "debug" THEN PanicV
    ELSE Ok(wrap_i64(v))

\* x - y, x.pow(2), x + y and x * y on results of earlier operations.
sub_i64(b, x, y) ==
    IF x.tag = "Panic" \/ y.tag = "Panic" THEN PanicV ELSE checked_i64(b, int_sub(x.val, y.val))

pow2_i64(b, x) == IF x.tag = "Panic" THEN PanicV ELSE checked_i64(b, int_mul(x.val, x.val))

add_i64(b, x, y) ==
    IF x.tag = "Panic" \/ y.tag = "Panic" THEN PanicV ELSE checked_i64(b, int_add(x.val, y.val))

mul_i64(b, x, y) ==
    IF x.tag = "Panic" \/ y.tag = "Panic" THEN PanicV ELSE checked_i64(b, int_mul(x.val, y.val))

\* A coordinate of a Vec3D as an i64.
i64_of(n) == Ok(int_of(n))

\* Vec3D::square_distance_to
square_distance_to(b, v1, v2) ==
    add_i64(b, add_i64(b, pow2_i64(b, sub_i64(b, i64_of(v1[1]), i64_of(v2[1]))),
                          pow2_i64(b, sub_i64(b, i64_of(v1[2]), i64_of(v2[2])))),
               pow2_i64(b, sub_i64(b, i64_of(v1[3]), i64_of(v2[3]))))

(***************************************************************************)
(* Day 8, part2 (day08/mod.rs, specification SpecDay08Part2): the room     *)
(* parsed from the input has find_closest_vector_mapping run on its        *)
(* vectors, then the loop of part2 takes the pairs one a step, and the     *)
(* product of the x-coordinates of the last merged pair is returned.       *)
(* pair_index is the number of pairs the loop has taken.                   *)
(***************************************************************************)
ZERO == <<0, 0, 0>>

\* The pairs pushed by the two loops of find_closest_vector_mapping.
RECURSIVE push_pairs(_, _, _)
push_pairs(vectors, i, j) ==
    IF i > Len(vectors) THEN <<>>
    ELSE IF j > Len(vectors) THEN push_pairs(vectors, i + 1, i + 2)
    ELSE <<<<vectors[i], vectors[j]>>>> \o push_pairs(vectors, i, j + 1)

\* Each pair with its key, the key an Ok of an i64 or a panic.
keyed_pairs(b, ps) ==
    [k \in DOMAIN ps |-> [key |-> square_distance_to(b, ps[k][1], ps[k][2]), pair |-> ps[k]]]

\* sort_by_key: a stable sort, here by insertion.
RECURSIVE insert_by_key(_, _)
insert_by_key(sorted, e) ==
    IF sorted = <<>> THEN <<e>>
    ELSE IF int_leq(sorted[Len(sorted)].key.val, e.key.val) THEN Append(sorted, e)
    ELSE Append(insert_by_key(SubSeq(sorted, 1, Len(sorted) - 1), e), sorted[Len(sorted)])

RECURSIVE sort_by_key(_, _, _)
sort_by_key(ks, i, sorted) ==
    IF i > Len(ks) THEN sorted ELSE sort_by_key(ks, i + 1, insert_by_key(sorted, ks[i]))

strip_keys(ks) == [k \in DOMAIN ks |-> ks[k].pair]

\* The sort of a list of fewer than two pairs computes no key; the sort of
\* a longer list computes the key of every pair.
sorted_pairs(ks) ==
    IF Len(ks) < 2 THEN Ok(strip_keys(ks))
    ELSE IF \E k \in DOMAIN ks : ks[k].key.tag = "Panic" THEN PanicV
    ELSE Ok(strip_keys(sort_by_key(ks, 1, <<>>)))

find_closest_vector_mapping(b, vectors) == sorted_pairs(keyed_pairs(b, push_pairs(vectors, 1, 2)))

\* JunctionRoom::all_vectors
RECURSIVE all_vectors(_)
all_vectors(room) == IF room = <<>> THEN <<>> ELSE room[1] \o all_vectors(Tail(room))

contains(junction_box, vector) == \E k \in DOMAIN junction_box : junction_box[k] = vector

\* JunctionRoom::find_box_index, zero-based.
find_box_index(room, vector) ==
    IF \E i \in DOMAIN room : contains(room[i], vector)
    THEN Some(Min({i \in DOMAIN room : contains(room[i], vector)}) - 1)
    ELSE NoneV

\* (last_from.x * last_to.x) as u64
x_product(b, from, to) ==
    IF mul_i64(b, i64_of(from[1]), i64_of(to[1])).tag = "Panic" THEN PanicV
    ELSE Ok(as_u64(mul_i64(b, i64_of(from[1]), i64_of(to[1])).val))

\* Vectors whose squared distances leave the range of i64, and one of a
\* negative x.
WideVectors == {<<2147483647, 2147483647, 2147483647>>, <<0 - 2147483647, 0, 0>>, <<0 - 1, 0, 0>>}

InitDay08Part2 ==
    /\ build \in {"debug", "release"}
    /\ Idle10 /\ Idle01 /\ Idle03 /\ Idle04 /\ Idle05 /\ Idle09 /\ IdleCalls
    /\ junction_room \in {junction_room_new(vs) :
                             vs \in SeqsUpTo(VectorPalette \cup WideVectors, MaxVectors)}
    /\ from_index = 0
    /\ to_index = 0
    /\ pc08 = "parsed"
    /\ pairs = Unset
    /\ pair_index = 0
    /\ last_from = ZERO
    /\ last_to = ZERO
    /\ answer08 = Unset

\* let pairs = find_closest_vector_mapping(&junction_room.all_vectors());
FindPairs ==
    /\ pc08 = "parsed"
    /\ pairs' = find_closest_vector_mapping(build, all_vectors(junction_room))
    /\ pc08' = IF pairs'.tag = "Panic" THEN "panic" ELSE "loop"
    /\ UNCHANGED <<build, others08, junction_room, from_index, to_index,
                   pair_index, last_from, last_to, answer08>>

\* One turn of the loop on a pair whose vectors are in boxes f and t.
TakePair(from_vector, to_vector, f, t) ==
    /\ pair_index' = pair_index + 1
    /\ IF f.tag = "Some" /\ t.tag = "Some"
       THEN /\ from_index' = f.val
            /\ to_index' = t.val
            /\ IF f.val # t.val
               THEN /\ junction_room' = merge_junction_box(junction_room, f.val, t.val)
                    /\ last_to' = to_vector
                    /\ last_from' = from_vector
               ELSE UNCHANGED <<junction_room, last_from, last_to>>
            /\ UNCHANGED <<pc08, answer08>>
       ELSE /\ answer08' = ErrV
            /\ pc08' = "done"
            /\ UNCHANGED <<junction_room, from_index, to_index, last_from, last_to>>

\* for (from_vector, to_vector) in pairs { ... }, one pair.
LoopTurn ==
    /\ pc08 = "loop"
    /\ pair_index < Len(pairs.val)
    /\ Len(junction_room) # 1
    /\ TakePair(pairs.val[pair_index + 1][1], pairs.val[pair_index + 1][2],
                find_box_index(junction_room, pairs.val[pair_index + 1][1]),
                find_box_index(junction_room, pairs.val[pair_index + 1][2]))
    /\ UNCHANGED <<build, others08, pairs>>

\* The end of the loop, by the break or by the last pair, and the answer.
ReturnProduct ==
    /\ pc08 = "loop"
    /\ pair_index = Len(pairs.val) \/ Len(junction_room) = 1
    /\ answer08' = x_product(build, last_from, last_to)
    /\ pc08' = IF answer08'.tag = "Panic" THEN "panic" ELSE "done"
    /\ UNCHANGED <<build, others08, junction_room, from_index, to_index,
                   pairs, pair_index, last_from, last_to>>

NextDay08Part2 == FindPairs \/ LoopTurn \/ ReturnProduct

SpecDay08Part2 == InitDay08Part2 /\ [][NextDay08Part2]_vars

\* The squared distance of two vectors, as a number of any size.
SquaredDistance(v1, v2) ==
    int_add(int_add(int_mul(int_sub(int_of(v1[1]), int_of(v2[1])),
                            int_sub(int_of(v1[1]), int_of(v2[1]))),
                    int_mul(int_sub(int_of(v1[2]), int_of(v2[2])),
                            int_sub(int_of(v1[2]), int_of(v2[2])))),
            int_mul(int_sub(int_of(v1[3]), int_of(v2[3])),
                    int_sub(int_of(v1[3]), int_of(v2[3]))))

\* The squared distance does not decrease along the first n pairs of ps.
DistanceAscends(ps, n) ==
    \A k \in 1..(n - 1) :
        int_leq(SquaredDistance(ps[k][1], ps[k][2]), SquaredDistance(ps[k + 1][1], ps[k + 1][2]))

\* The unordered pairs of positions of a list.
PositionPairs(vs) == {ij \in (DOMAIN vs) \X (DOMAIN vs) : ij[1] < ij[2]}

\* ps holds one pair for each unordered pair of positions of vs.
OnePairEach(ps, vs) ==
    \A ij \in PositionPairs(vs) :
        Cardinality({k \in DOMAIN ps : {ps[k][1], ps[k][2]} = {vs[ij[1]], vs[ij[2]]}})
            = Cardinality({gh \in PositionPairs(vs) :
                              {vs[gh[1]], vs[gh[2]]} = {vs[ij[1]], vs[ij[2]]}})

\* The call of find_closest_vector_mapping is over and the loop has not begun.
PairsFound == pc08 \in {"loop", "panic"} /\ pair_index = 0 /\ answer08 = Unset

\* C22: find_closest_vector_mapping on n vectors returns n(n-1)/2 pairs, one
\* for each unordered pair of positions of the input, and the squared
\* distance does not decrease along the list.
C22_PairsCompleteAndOrdered ==
    PairsFound
        => /\ pairs.tag = "Ok"
           /\ 2 * Len(pairs.val) = Len(junction_room) * (Len(junction_room) - 1)
           /\ OnePairEach(pairs.val, all_vectors(junction_room))
           /\ DistanceAscends(pairs.val, Len(pairs.val))

NoRepeat(vs) == \A i, j \in DOMAIN vs : vs[i] = vs[j] => i = j

\* C21: part2 takes the pairs in an order in which the squared distance
\* does not decrease; a turn of the loop merges only when the two vectors
\* of its pair are in different boxes and more than one box remains, a
\* merge leaves one box less and records its pair as (last_from, last_to),
\* and nothing else changes the record; on two or more distinct vectors the
\* run ends with one box, that is after n - 1 merges, and the answer is the
\* product of the x-coordinates of the recorded pair, the pair whose merge
\* took the room from two boxes to one.
C21_LastMergeGivesAnswer ==
    /\ [](pc08 \in {"loop", "done", "panic"}
            => /\ pairs.tag = "Ok" /\ DistanceAscends(pairs.val, pair_index)
               /\ (Len(all_vectors(junction_room)) >= 2 /\ NoRepeat(all_vectors(junction_room)))
                    => /\ pc08 # "panic"
                       /\ pc08 = "done"
                            => /\ Len(junction_room) = 1
                               /\ answer08 = Ok(as_u64(int_mul(int_of(last_from[1]),
                                                               int_of(last_to[1])))))
    /\ [][pc08 = "loop"
            => /\ junction_room' # junction_room
                    => /\ Len(junction_room) >= 2
                       /\ Len(junction_room') = Len(junction_room) - 1
                       /\ find_box_index(junction_room, pairs.val[pair_index'][1])
                            # find_box_index(junction_room, pairs.val[pair_index'][2])
                       /\ <<last_from', last_to'>> = pairs.val[pair_index']
               /\ junction_room' = junction_room
                    => <<last_from', last_to'>> = <<last_from, last_to>>]_vars

(***************************************************************************)
(* Day 9, part2 (day09/mod.rs, specification SpecDay09): the TileFloor     *)
(* parsed from the input has rectangles() run on it, then                  *)
(* find_non_intersecting_rectangle tests the rectangles in their order,    *)
(* one a step, and part2 returns the area of the first that passes.  A     *)
(* Vec2D is the pair <<x, y>>; the coordinates of the model are small, so  *)
(* that no operation on them leaves the range of i64.                      *)
(***************************************************************************)
MaxSide == 3

abs(n) == IF n < 0 THEN 0 - n ELSE n

\* square_area
square_area(top_left, bottom_right) ==
    (abs(bottom_right[1] - top_left[1]) + 1) * (abs(bottom_right[2] - top_left[2]) + 1)

\* edges: <<xmin, xmax, ymin, ymax>>
edges(p1, p2) ==
    <<IF p1[1] <= p2[1] THEN p1[1] ELSE p2[1], IF p1[1] <= p2[1] THEN p2[1] ELSE p1[1],
      IF p1[2] <= p2[2] THEN p1[2] ELSE p2[2], IF p1[2] <= p2[2] THEN p2[2] ELSE p1[2]>>

\* The pairs pushed by the two loops of rectangles().
RECURSIVE push_rectangles(_, _, _)
push_rectangles(tiles, i, j) ==
    IF i > Len(tiles) THEN <<>>
    ELSE IF j > Len(tiles) THEN push_rectangles(tiles, i + 1, i + 2)
    ELSE <<<<tiles[i], tiles[j]>>>> \o push_rectangles(tiles, i, j + 1)

\* sort_by on the areas: a stable sort, here by insertion.
RECURSIVE insert_by_area(_, _)
insert_by_area(sorted, r) ==
    IF sorted = <<>> THEN <<r>>
    ELSE IF square_area(sorted[Len(sorted)][1], sorted[Len(sorted)][2]) <= square_area(r[1], r[2])
    THEN Append(sorted, r)
    ELSE Append(insert_by_area(SubSeq(sorted, 1, Len(sorted) - 1), r), sorted[Len(sorted)])

RECURSIVE sort_by_area(_, _, _)
sort_by_area(rs, i, sorted) ==
    IF i > Len(rs) THEN sorted ELSE sort_by_area(rs, i + 1, insert_by_area(sorted, rs[i]))


\* TileFloor::rectangles
rectangles(tiles) == reverse(sort_by_area(push_rectangles(tiles, 1, 2), 1, <<>>))

\* The test of one edge by the closure of find: the bounds e of the
\* rectangle against the edge from red_tile to next_red_tile.
crosses_edge(e, red_tile, next_red_tile) ==
    IF red_tile[1] = next_red_tile[1]
    THEN IF /\ e[1] < red_tile[1]
            /\ e[2] > red_tile[1]
            /\ ~(\/ e[3] >= edges(red_tile, next_red_tile)[4]
                 \/ e[4] <= edges(red_tile, next_red_tile)[3])
         THEN "crossing" ELSE "clear"
    ELSE IF red_tile[2] = next_red_tile[2]
    THEN IF /\ e[3] < red_tile[2]
            /\ e[4] > red_tile[2]
            /\ ~(\/ e[1] >= edges(red_tile, next_red_tile)[2]
                 \/ e[2] <= edges(red_tile, next_red_tile)[1])
         THEN "crossing" ELSE "clear"
    ELSE "unreachable"

\* The closure of find from the tile at place i on: "valid" for true,
\* "crossing" for false, "unreachable" for the panic of unreachable!().
RECURSIVE non_intersecting(_, _, _)
non_intersecting(tiles, e, i) ==
    IF i > Len(tiles) THEN "valid"
    ELSE IF crosses_edge(e, tiles[i], tiles[(i % Len(tiles)) + 1]) = "clear"
    THEN non_intersecting(tiles, e, i + 1)
    ELSE IF crosses_edge(e, tiles[i], tiles[(i % Len(tiles)) + 1]) = "crossing" THEN "crossing"
    ELSE "unreachable"

\* The floors: boxes, L shapes and U shapes of sides up to MaxSide, each in
\* both directions, the example of the puzzle, and floors of few tiles.
Box(a, b) == <<<<0, 0>>, <<a, 0>>, <<a, b>>, <<0, b>>>>

Ell(a, b, c, d) ==
    <<<<0, 0>>, <<a + c, 0>>, <<a + c, b>>, <<a, b>>, <<a, b + d>>, <<0, b + d>>>>

Notch(a, w, c, d, t) ==
    <<<<0, 0>>, <<a, 0>>, <<a, d>>, <<a + w, d>>, <<a + w, 0>>, <<a + w + c, 0>>,
      <<a + w + c, d + t>>, <<0, d + t>>>>

FixtureFloor ==
    <<<<7, 1>>, <<11, 1>>, <<11, 7>>, <<9, 7>>, <<9, 5>>, <<2, 5>>, <<2, 3>>, <<7, 3>>>>

Sides == 1..MaxSide

Polygons ==
    {Box(a, b) : a \in Sides, b \in Sides}
        \cup {Ell(s[1], s[2], s[3], s[4]) : s \in Sides \X Sides \X Sides \X Sides}
        \cup {Notch(s[1], s[2], s[3], s[4], 1) : s \in Sides \X Sides \X Sides \X Sides}
        \cup {FixtureFloor}

FewTiles == {<<>>, <<<<0, 0>>>>, <<<<0, 0>>, <<2, 0>>>>, <<<<0, 0>>, <<1, 1>>>>}

TileFloors == Polygons \cup {reverse(f) : f \in Polygons} \cup FewTiles

InitDay09 ==
    /\ build \in {"debug", "release"}
    /\ Idle10 /\ Idle01 /\ Idle03 /\ Idle04 /\ Idle05 /\ Idle08 /\ IdleCalls
    /\ tile_floor \in TileFloors
    /\ rectangle_list = <<>>
    /\ rectangle_index = 0
    /\ found = Unset
    /\ answer09 = Unset
    /\ pc09 = "parsed"

\* let rectangles = self.rectangles();
Rectangles ==
    /\ pc09 = "parsed"
    /\ rectangle_list' = rectangles(tile_floor)
    /\ pc09' = "find"
    /\ UNCHANGED <<build, others09, tile_floor, rectangle_index, found, answer09>>

\* One call of the closure of find, with the verdict it gives.
TestRectangle(r, verdict) ==
    /\ IF verdict = "valid"
       THEN found' = Some(r) /\ pc09' = "found" /\ UNCHANGED rectangle_index
       ELSE IF verdict = "crossing"
       THEN rectangle_index' = rectangle_index + 1 /\ UNCHANGED <<found, pc09>>
       ELSE pc09' = "panic" /\ UNCHANGED <<found, rectangle_index>>
    /\ UNCHANGED <<build, others09, tile_floor, rectangle_list, answer09>>

FindTurn ==
    /\ pc09 = "find"
    /\ rectangle_index < Len(rectangle_list)
    /\ TestRectangle(rectangle_list[rectangle_index + 1],
                     non_intersecting(tile_floor,
                                      edges(rectangle_list[rectangle_index + 1][1],
                                            rectangle_list[rectangle_index + 1][2]), 1))

\* find returns None and part2 the error of ok_or_else.
NoRectangle ==
    /\ pc09 = "find"
    /\ rectangle_index = Len(rectangle_list)
    /\ found' = NoneV
    /\ answer09' = ErrV
    /\ pc09' = "done"
    /\ UNCHANGED <<build, others09, tile_floor, rectangle_list, rectangle_index>>

\* Ok(square_area(&p1, &p2))
ReturnArea ==
    /\ pc09 = "found"
    /\ answer09' = Ok(square_area(found.val[1], found.val[2]))
    /\ pc09' = "done"
    /\ UNCHANGED <<build, others09, tile_floor, rectangle_list, rectangle_index, found>>

NextDay09 == Rectangles \/ FindTurn \/ NoRectangle \/ ReturnArea

SpecDay09 == InitDay09 /\ [][NextDay09]_vars

\* The tile t is on the edge from red tile p to red tile q.
OnEdge(t, p, q) ==
    /\ edges(p, q)[1] <= t[1] /\ t[1] <= edges(p, q)[2]
    /\ edges(p, q)[3] <= t[2] /\ t[2] <= edges(p, q)[4]

OnBoundary(tiles, t) ==
    \E i \in DOMAIN tiles : OnEdge(t, tiles[i], tiles[(i % Len(tiles)) + 1])

\* A tile off the boundary is inside when a ray from it to the right meets
\* an odd number of vertical edges.
InsidePolygon(tiles, t) ==
    Cardinality({i \in DOMAIN tiles :
                    /\ tiles[i][1] = tiles[(i % Len(tiles)) + 1][1]
                    /\ tiles[i][1] > t[1]
                    /\ edges(tiles[i], tiles[(i % Len(tiles)) + 1])[3] <= t[2]
                    /\ t[2] < edges(tiles[i], tiles[(i % Len(tiles)) + 1])[4]}) % 2 = 1

RedOrGreen(tiles, t) == OnBoundary(tiles, t) \/ InsidePolygon(tiles, t)

\* Every tile of the rectangle spanned by p1 and p2 is red or green.
AllRedOrGreen(tiles, p1, p2) ==
    \A x \in edges(p1, p2)[1]..edges(p1, p2)[2], y \in edges(p1, p2)[3]..edges(p1, p2)[4] :
        RedOrGreen(tiles, <<x, y>>)

\* The floor is a rectilinear polygon: four red tiles or more, each next to
\* the one after it in a row or in a column.
Rectilinear(tiles) ==
    /\ Len(tiles) >= 4
    /\ \A i \in DOMAIN tiles :
          (tiles[i][1] = tiles[(i % Len(tiles)) + 1][1])
              # (tiles[i][2] = tiles[(i % Len(tiles)) + 1][2])

\* C23: on a rectilinear polygon, the rectangle that
\* find_non_intersecting_rectangle returns holds red and green tiles only,
\* and no rectangle spanned by two red tiles that holds red and green tiles
\* only has a larger area.
C23_ReturnedRectangleIsLargestInside ==
    (pc09 \in {"found", "done"} /\ Rectilinear(tile_floor))
        => /\ found.tag = "Some"
           /\ AllRedOrGreen(tile_floor, found.val[1], found.val[2])
           /\ \A i, j \in DOMAIN tile_floor :
                 AllRedOrGreen(tile_floor, tile_floor[i], tile_floor[j])
                     => square_area(tile_floor[i], tile_floor[j])
                            <= square_area(found.val[1], found.val[2])

(***************************************************************************)
(* Day 10, the solvers called again (day10/mod.rs:74-164, specification    *)
(* SpecCalls): a Machine parsed from a line has each solver called on it   *)
(* up to MaxCalls times, in any order.  A solver takes &self, so a call    *)
(* assigns nothing to the machine.  z3 gives no promise on which of the    *)
(* models of the least total get_model returns: a call of the joltage      *)
(* solver takes any of them, and joltage_models keeps what the first call  *)
(* and the latest call got.                                                *)
(***************************************************************************)
MaxCalls == 2

\* The values of a variable that is in no assertion but var >= 0.
MaxFree == 1

\* The assignments of the variables j..n that satisfy the assertions, each
\* a sequence of the values of j..n.
RECURSIVE z3_satisfying(_, _, _)
z3_assign(j, n, cons, inc, k) ==
    {<<k>> \o rest :
        rest \in z3_satisfying(j + 1, n,
                    [c \in DOMAIN cons |->
                        IF c \in inc THEN [cons[c] EXCEPT !.target = @ - k] ELSE cons[c]])}

z3_values(cons, inc) == 0..(IF inc = {} THEN MaxFree ELSE Min({cons[c].target : c \in inc}))

z3_satisfying(j, n, cons) ==
    IF j > n
    THEN IF \A c \in DOMAIN cons : cons[c].target = 0 THEN {<<>>} ELSE {}
    ELSE UNION {z3_assign(j, n, cons, {c \in DOMAIN cons : j \in cons[c].terms}, k) :
                   k \in z3_values(cons, {c \in DOMAIN cons : j \in cons[c].terms})}

\* The models of the assertions with the least total.
least_total(models) == {x \in models : \A y \in models : SumSeq(x, 1) <= SumSeq(y, 1)}

\* opt.check and opt.get_model with no opt.minimize before them.
z3_get_model_unminimized(n, cons) == z3_satisfying(1, n, cons)

\* opt.minimize(&total); opt.check(&[]); opt.get_model(): the models z3 may
\* return, none when the check is not Sat.
z3_get_model(n, cons) == least_total(z3_satisfying(1, n, cons))

\* What the joltage solver may get from z3 on a machine: no call of z3
\* (NoneV here) when the solver returns or panics before it.
z3_outcomes(m, built) ==
    IF built.tag # "Ok" \/ Len(m.buttons) = 0 THEN {NoneV}
    ELSE IF z3_get_model(Len(m.buttons), built.val) = {} THEN {NoneV}
    ELSE {Some(x) : x \in z3_get_model(Len(m.buttons), built.val)}

\* find_minimal_button_presses_for_joltage_requirement, given what z3 gave:
\* model.eval(&total, true)?.as_i64()? as u64.
joltage_result(m, built, outcome) ==
    IF built.tag # "Ok" THEN built
    ELSE IF Len(m.buttons) = 0 THEN PanicV
    ELSE IF outcome.tag = "None" THEN NoneV
    ELSE Some(SumSeq(outcome.val, 1))

\* The lines of the machines called: two lights and two counters with at
\* most MaxButtons buttons, the machine of the comment in the source, a
\* machine of as many buttons as a u16 has bits, machines of one counter
\* more, and the lines at the edges of the format.
CallLines ==
    {FormatLine(l, bs, js) :
        l \in {<<".", "#">>, <<"#", "#">>}, bs \in SeqsUpTo(ButtonPalette, MaxButtons),
        js \in {<<0, 0>>, <<1, 0>>, <<1, 1>>, <<2, 1>>}}
    \cup {FixtureLine, FormatLine(<<"#", ".">>, Repeat(<<0>>, Width), <<1, 0>>)}
    \cup WideCounterLines \cup EdgeLines

\* The lines that parse to a Machine.
MachineLines(b) == {l \in CallLines : from_str(b, l).tag = "Ok"}

InitCalls ==
    /\ build \in {"debug", "release"}
    /\ Idle10 /\ Idle01 /\ Idle03 /\ Idle04 /\ Idle05 /\ Idle08 /\ Idle09
    /\ machine_text \in MachineLines(build)
    /\ machine = from_str(build, machine_text).val
    /\ toggle_calls = <<>>
    /\ joltage_calls = <<>>
    /\ joltage_models = <<>>

\* machine.find_minimal_button_presses()
CallToggle ==
    /\ Len(toggle_calls) < MaxCalls
    /\ toggle_calls' = Append(toggle_calls, find_minimal_button_presses(build, machine))
    /\ UNCHANGED <<build, othersCalls, machine_text, machine, joltage_calls, joltage_models>>

\* machine.find_minimal_button_presses_for_joltage_requirement()
CallJoltage(built) ==
    /\ Len(joltage_calls) < MaxCalls
    /\ \E outcome \in z3_outcomes(machine, built) :
          /\ joltage_calls' = Append(joltage_calls, joltage_result(machine, built, outcome))
          /\ joltage_models' = IF joltage_models = <<>> THEN <<outcome>>
                                ELSE <<joltage_models[1], outcome>>
    /\ UNCHANGED <<build, othersCalls, machine_text, machine, toggle_calls>>

NextCalls == CallToggle \/ CallJoltage(counter_loop(build, machine, 1, <<>>))

SpecCalls == InitCalls /\ [][NextCalls]_vars

====
